---- MODULE Spec2Model ----
(***************************************************************************)
(* A model of the bills-analysis backend: the oracle analyzers             *)
(* (BillAnalyzer, StatementAnalyzer), their batch pipeline, the Email      *)
(* value object, EmailParser, BillMatcher and the endpoints of the server. *)
(*                                                                         *)
(* Each component has its own specification (SpecAnalyze, SpecFilter,      *)
(* SpecBatch, FairSpecBatch, SpecEmail, SpecParse, SpecName, SpecScore,    *)
(* SpecMatch, SpecBills, FairSpecBills, SpecAuth, SpecStatement).  The     *)
(* variables of the components a specification does not exercise stay at   *)
(* their idle values.                                                      *)
(***************************************************************************)
EXTENDS Integers, Sequences, FiniteSets, TLC

VARIABLES
    \* ---- one analyze() call on an oracle outcome (SpecAnalyze)
    aKind,      \* "bill" | "statement": which analyzer
    aOutcome,   \* the oracle outcome: [ok |-> BOOLEAN, text |-> lexemes]
    aPc,        \* "idle" | "called" | "done"
    aResult,    \* what analyze() produced: [raised, value]
    \* ---- the transaction filter on a parsed array (SpecFilter)
    fArr,       \* the parsed oracle array
    fPc,        \* "idle" | "called" | "done"
    fResult,    \* what analyze() produced for it: [raised, value]
    \* ---- one analyzeBatch() invocation (SpecBatch, FairSpecBatch)
    bKind,        \* "bill" | "statement": which analyzer's analyzeBatch
    emails,       \* the input documents, each its own id
    concurrency,  \* the concurrency argument
    bPc,          \* "idle" | "loop" | "await" | "returned" | "rejected"
    bI,           \* the loop variable i
    batch,        \* the slice of the current iteration
    batchResults, \* the slots of the current Promise.all
    inflight,     \* positions of batch whose oracle call has not settled
    results,      \* the results array
    resp,         \* per document, the outcome its oracle call settled with
    calls,        \* per document, the oracle calls started for it
    lastSettled,  \* the document whose oracle call settled last (0: none)
    \* ---- one Email and its fullContent (SpecEmail)
    eBody,      \* Email.body
    ePdfText,   \* Email.pdfText
    ePc,        \* "idle" | "built" | "done"
    eFull,      \* what the fullContent getter returned
    \* ---- one EmailParser.parse() call (SpecParse)
    pMsg,       \* the message the message store holds: headers, bodyData, parts
    pPc,        \* "idle" | "get" | "parts" | "returned" | "rejected"
    pBody,      \* the local body
    pPdfText,   \* the local pdfText
    pIdx,       \* the part the attachment loop is at
    pFetched,   \* the parts whose attachment was requested, in order
    pOutcome,   \* per part, how its attachment went ("none": not requested)
    pEmail,     \* the Email returned
    \* ---- one calculateNameSimilarity() call (SpecName)
    nDesc,        \* tx.description
    nCompany,     \* bill.company
    nPc,          \* "idle" | "called" | "done"
    nSimilarity,  \* the number returned
    \* ---- one calculateMatchScore() call (SpecScore)
    sTx,        \* the transaction
    sBill,      \* the bill
    sPc,        \* "idle" | "amount" | "date" | "name" | "done"
    sScore,     \* the local score; at "done", the number returned
    \* ---- one matchTransactionsToBills() call (SpecMatch)
    transactions,  \* the transactions argument
    bills,         \* the bills argument
    mPc,           \* "idle" | "called" | "loop" | "returned"
    unpaidBills,   \* the local unpaidBills
    mI,            \* the position of tx in transactions
    matches,       \* the local matches; at "returned", the array returned
    mFrom,         \* per element of matches, the position of its transaction
    mScored,       \* the pairs <<position of tx, bill id>> calculateMatchScore got
    \* ---- one request GET /gmail/bills/analyze (SpecBills, FairSpecBills)
    rAuth,         \* "nouid" | "notokens" | "ok": what the uid and its tokens are
    rListOk,       \* does messages.list resolve
    rMessages,     \* the messages it resolves with
    rFetchOk,      \* per message, does messages.get resolve for it
    rAnalysis,     \* per message, what analyze() returns for its Email
    rPc,           \* where the handler is
    rHeadersSent,  \* res.headersSent
    rWritten,      \* the events written to the response, in order
    rEmails,       \* the local emails
    rBillResults,  \* the local billResults
    rI,            \* the loop variable i
    rResponse,     \* "open" | "ended" | "error" | "aborted": how the response went
    rCompletions,  \* how many times the response was completed
    \* ---- concurrent requests that use the Gmail API (SpecAuth)
    oCredentials,  \* the credentials the shared oAuth2Client holds
    oReq,          \* per uid, the request served for it
    oCalls,        \* the Gmail API calls and token refreshes made so far
    \* ---- a statement analysis from the matching on (SpecStatement)
    stTransactions,  \* allTransactions
    stBills,         \* the bills read from the store
    stMatches,       \* what matchTransactionsToBills returned
    stPc,            \* "idle" | "match" | "store" | "mark" | "responded" | "failed"
    stI,             \* the position of the loop the handler is in
    stBatch,         \* the writes staged in the Firestore batch
    stStored,        \* the transaction writes committed
    stBillDocs       \* per bill id, the stored status and paidDate

analyzeVars == <<aKind, aOutcome, aPc, aResult>>
filterVars  == <<fArr, fPc, fResult>>
batchVars   == <<bKind, emails, concurrency, bPc, bI, batch, batchResults,
                 inflight, results, resp, calls, lastSettled>>

emailVars   == <<eBody, ePdfText, ePc, eFull>>
parseVars   == <<pMsg, pPc, pBody, pPdfText, pIdx, pFetched, pOutcome, pEmail>>
nameVars    == <<nDesc, nCompany, nPc, nSimilarity>>
scoreVars   == <<sTx, sBill, sPc, sScore>>
matchVars   == <<transactions, bills, mPc, unpaidBills, mI, matches, mFrom, mScored>>
matcherVars == <<nameVars, scoreVars, matchVars>>
billsVars   == <<rAuth, rListOk, rMessages, rFetchOk, rAnalysis, rPc, rHeadersSent,
                 rWritten, rEmails, rBillResults, rI, rResponse, rCompletions>>
authVars    == <<oCredentials, oReq, oCalls>>
statementVars == <<stTransactions, stBills, stMatches, stPc, stI, stBatch,
                   stStored, stBillDocs>>
serverVars  == <<billsVars, authVars, statementVars>>

vars == <<analyzeVars, filterVars, batchVars, emailVars, parseVars, matcherVars,
          serverVars>>

(* What the actions of one component leave alone.                          *)
notAnalyzeVars == <<filterVars, batchVars, emailVars, parseVars, matcherVars,
                   serverVars>>
notFilterVars  == <<analyzeVars, batchVars, emailVars, parseVars, matcherVars,
                   serverVars>>
notBatchVars   == <<analyzeVars, filterVars, emailVars, parseVars, matcherVars,
                   serverVars>>
notEmailVars   == <<analyzeVars, filterVars, batchVars, parseVars, matcherVars,
                   serverVars>>
notParseVars   == <<analyzeVars, filterVars, batchVars, emailVars, matcherVars,
                   serverVars>>
notMatcherVars == <<analyzeVars, filterVars, batchVars, emailVars, parseVars,
                   serverVars>>
notNameVars    == <<notMatcherVars, scoreVars, matchVars>>
notScoreVars   == <<notMatcherVars, nameVars, matchVars>>
notMatchVars   == <<notMatcherVars, nameVars, scoreVars>>
notServerVars  == <<analyzeVars, filterVars, batchVars, emailVars, parseVars,
                   matcherVars>>
notBillsVars   == <<notServerVars, authVars, statementVars>>
notAuthVars    == <<notServerVars, billsVars, statementVars>>
notStatementVars == <<notServerVars, billsVars, authVars>>

----------------------------------------------------------------------------
(* Bounds of the model.                                                    *)

\* longest oracle response text, in lexemes
MaxText == 5
\* longest parsed oracle array
MaxTx == 3
\* most documents of one analyzeBatch call
MaxDocs == 4
\* largest concurrency argument
MaxConcurrency == 3
\* lowest concurrency argument is 0 - MaxNegConcurrency
MaxNegConcurrency == 2
\* the loop variable is followed down to 0 - MaxBelowZero
MaxBelowZero == 2
\* Email texts have a length of at most MaxShort, or within MaxDelta of half
\* the content limit or of the content limit
MaxShort == 2
MaxDelta == 1
\* most parts of a message
MaxParts == 3
\* longest generated description and company name, in characters
MaxName == 4
\* the transaction's amount is within MaxAmountDelta of the bill's
MaxAmountDelta == 10
\* the transaction's date is at most MaxBefore days before the due date and
\* at most MaxAfter days after it
MaxBefore == 15
MaxAfter == 31
\* most transactions and most bills of one matchTransactionsToBills call
MaxMatchTx == 2
MaxBills == 2
\* most messages messages.list resolves with
MaxMessages == 2
\* most messages of a request served next to other requests
MaxAuthMessages == 1

----------------------------------------------------------------------------
(* Oracle response texts.  A text is a sequence of lexemes:                *)
(*   "{" "}" "[" "]" ","   the JSON punctuation itself                     *)
(*   " "                   white space                                     *)
(*   "k"                   a member name with its colon, "k":              *)
(*   "1"                   a number literal                                *)
(*   "t"                   the literal of a valid transaction object       *)
(*                         (it holds no bracket)                           *)
(*   "n"                   the literal null                                *)
(*   "x"                   prose: a word that is no JSON                   *)

BillAlphabet == {"{", "}", "k", "1", "x", " "}
StatementAlphabet == {"[", "]", ",", "t", "n", "x"}

SeqsUpTo(S, n) == UNION {[1..m -> S] : m \in 0..n}

At(s, p) == IF p >= 1 /\ p <= Len(s) THEN s[p] ELSE "EOF"

RECURSIVE SkipWs(_, _)
SkipWs(s, p) == IF At(s, p) = " " THEN SkipWs(s, p + 1) ELSE p

(* JSON.parse's grammar on these lexemes.  Each Parse operator returns the *)
(* position after what it parsed, or 0 when the text is no JSON there.     *)
RECURSIVE ParseValue(_, _)
RECURSIVE ParseMembers(_, _)
RECURSIVE ParseElements(_, _)

ParseValue(s, p0) ==
    LET p == SkipWs(s, p0)
        c == At(s, p)
    IN  IF c \in {"1", "t", "n"} THEN p + 1
        ELSE IF c = "{"
             THEN LET q == SkipWs(s, p + 1)
                  IN  IF At(s, q) = "}" THEN q + 1 ELSE ParseMembers(s, q)
        ELSE IF c = "["
             THEN LET q == SkipWs(s, p + 1)
                  IN  IF At(s, q) = "]" THEN q + 1 ELSE ParseElements(s, q)
        ELSE 0

ParseMembers(s, q) ==
    IF At(s, q) # "k" THEN 0
    ELSE LET v == ParseValue(s, q + 1)
             r == SkipWs(s, v)
         IN  IF v = 0 THEN 0
             ELSE IF At(s, r) = "}" THEN r + 1
             ELSE IF At(s, r) = "," THEN ParseMembers(s, SkipWs(s, r + 1))
             ELSE 0

ParseElements(s, q) ==
    LET v == ParseValue(s, q)
        r == SkipWs(s, v)
    IN  IF v = 0 THEN 0
        ELSE IF At(s, r) = "]" THEN r + 1
        ELSE IF At(s, r) = "," THEN ParseElements(s, r + 1)
        ELSE 0

JSONValid(s) ==
    LET e == ParseValue(s, 1)
    IN  e # 0 /\ SkipWs(s, e) = Len(s) + 1

IsWs(c) == c = " "
NotWs(c) == ~IsWs(c)

(* The value JSON.parse returns for a valid text, as its lexemes without   *)
(* the insignificant white space.                                          *)
JSONValue(s) == SelectSeq(s, NotWs)

(* JSON.parse: it throws on a text that is no JSON.                        *)
JSONParse(s) == [threw |-> ~JSONValid(s), value |-> JSONValue(s)]

----------------------------------------------------------------------------
(* String.prototype.match with /\{[\s\S]*\}/ or /\[[\s\S]*\]/: the regular *)
(* expression is greedy, so the match runs from the first opening bracket  *)
(* to the last closing bracket after it.                                   *)

Positions(s, c) == {p \in 1..Len(s) : s[p] = c}
MinOf(S) == CHOOSE p \in S : \A q \in S : p <= q
MaxOf(S) == CHOOSE p \in S : \A q \in S : p >= q

RegexMatch(s, open, close) ==
    LET opens == Positions(s, open)
    IN  IF opens = {} THEN [found |-> FALSE, span |-> <<>>]
        ELSE LET first == MinOf(opens)
                 closes == {p \in Positions(s, close) : p > first}
             IN  IF closes = {} THEN [found |-> FALSE, span |-> <<>>]
                 ELSE [found |-> TRUE, span |-> SubSeq(s, first, MaxOf(closes))]

----------------------------------------------------------------------------
(* JavaScript values of the fields of a parsed array element.              *)

Str(x)  == [t |-> "string", s |-> x, n |-> 0]
Num(k)  == [t |-> "number", s |-> "", n |-> k]
Undef   == [t |-> "undefined", s |-> "", n |-> 0]
Bool(b) == [t |-> "boolean", s |-> "", n |-> IF b THEN 1 ELSE 0]

Truthy(v) ==
    CASE v.t = "string" -> v.s # ""
      [] v.t = "number" -> v.n # 0
      [] v.t = "boolean" -> v.n = 1
      [] OTHER -> FALSE

(* An element of the parsed array: null, or a value with the four fields   *)
(* (a field it does not have reads as undefined).                          *)
Elem(isNull, date, description, amount, type) ==
    [isNull |-> isNull, date |-> date, description |-> description,
     amount |-> amount, type |-> type]

NullElem == Elem(TRUE, Undef, Undef, Undef, Undef)
NoFieldsElem == Elem(FALSE, Undef, Undef, Undef, Undef)
ValidTx == Elem(FALSE, Str("2024-01-15"), Str("NETFLIX"), Num(15), Str("debit"))

(* The callback of transactions.filter: reading a field of null throws.    *)
FilterKeeps(tx) ==
    /\ Truthy(tx.date)
    /\ Truthy(tx.description)
    /\ tx.amount.t = "number"
    /\ tx.amount.n > 0
    /\ (tx.type = Str("debit") \/ tx.type = Str("credit"))

FilterThrows(tx) == tx.isNull

(* Array.prototype.filter with that callback: an exception of the callback *)
(* ends the whole filter.                                                  *)
TxFilter(arr) ==
    IF \E i \in 1..Len(arr) : FilterThrows(arr[i])
    THEN [threw |-> TRUE, value |-> <<>>]
    ELSE [threw |-> FALSE, value |-> SelectSeq(arr, FilterKeeps)]

(* The elements of a valid array text.                                     *)
ElemOf(c) == IF c = "t" THEN ValidTx ELSE IF c = "n" THEN NullElem ELSE NoFieldsElem

RECURSIVE ElemsFrom(_, _)
ElemsFrom(s, q0) ==
    LET q == SkipWs(s, q0)
    IN  IF At(s, q) \in {"]", "EOF"} THEN <<>>
        ELSE LET v == ParseValue(s, q)
                 r == SkipWs(s, v)
             IN  <<ElemOf(At(s, q))>> \o
                 (IF v # 0 /\ At(s, r) = "," THEN ElemsFrom(s, r + 1) ELSE <<>>)

ArrayElems(span) == ElemsFrom(span, 2)

----------------------------------------------------------------------------
(* analyze().  An oracle outcome is a rejected call or a response text.    *)

Null == <<"null">>
EmptyList == <<>>

(* What analyze() returns when it has nothing: null, or the empty list.   *)
FallbackOf(kind) == IF kind = "bill" THEN Null ELSE EmptyList

Failed == [ok |-> FALSE, text |-> <<>>]
Responded(text) == [ok |-> TRUE, text |-> text]

(* The try block of BillAnalyzer.analyze.                                  *)
BillTry(outcome) ==
    IF ~outcome.ok THEN [threw |-> TRUE, value |-> Null]
    ELSE IF outcome.text = <<>> THEN [threw |-> FALSE, value |-> Null]
    ELSE LET jsonMatch == RegexMatch(outcome.text, "{", "}")
         IN  IF jsonMatch.found THEN JSONParse(jsonMatch.span)
             ELSE [threw |-> FALSE, value |-> Null]

(* The try block of StatementAnalyzer.analyze.                             *)
StatementTry(outcome) ==
    IF ~outcome.ok THEN [threw |-> TRUE, value |-> EmptyList]
    ELSE IF outcome.text = <<>> THEN [threw |-> FALSE, value |-> EmptyList]
    ELSE LET jsonMatch == RegexMatch(outcome.text, "[", "]")
         IN  IF jsonMatch.found
             THEN IF JSONParse(jsonMatch.span).threw
                  THEN [threw |-> TRUE, value |-> EmptyList]
                  ELSE TxFilter(ArrayElems(jsonMatch.span))
             ELSE [threw |-> FALSE, value |-> EmptyList]

(* try { ... } catch (error) { console.error(...); return fallback; }      *)
AnalyzeNoCatch(try, fallback) == [raised |-> try.threw, value |-> try.value]

TryCatch(try, fallback) ==
    IF try.threw THEN [raised |-> FALSE, value |-> fallback]
    ELSE [raised |-> FALSE, value |-> try.value]

BillAnalyzeNoCatch(outcome) == AnalyzeNoCatch(BillTry(outcome), Null)

BillAnalyze(outcome) == TryCatch(BillTry(outcome), Null)
StatementAnalyze(outcome) == TryCatch(StatementTry(outcome), EmptyList)

Analyze(kind, outcome) ==
    IF kind = "bill" THEN BillAnalyze(outcome) ELSE StatementAnalyze(outcome)

NoResult == [raised |-> FALSE, value |-> <<"none">>]

----------------------------------------------------------------------------
(* SpecAnalyze: one analyze() call on every oracle outcome within MaxText. *)

Alphabet(kind) == IF kind = "bill" THEN BillAlphabet ELSE StatementAlphabet
Outcomes(kind) == {Failed} \cup {Responded(t) : t \in SeqsUpTo(Alphabet(kind), MaxText)}

IdleAnalyze ==
    /\ aKind = "bill"
    /\ aOutcome = Failed
    /\ aPc = "idle"
    /\ aResult = NoResult

IdleFilter ==
    /\ fArr = <<>>
    /\ fPc = "idle"
    /\ fResult = NoResult

IdleBatch ==
    /\ bKind = "bill"
    /\ emails = <<>>
    /\ concurrency = 1
    /\ bPc = "idle"
    /\ bI = 0
    /\ batch = <<>>
    /\ batchResults = <<>>
    /\ inflight = {}
    /\ results = <<>>
    /\ resp = <<>>
    /\ calls = <<>>
    /\ lastSettled = 0

IdleEmail ==
    /\ eBody = <<>>
    /\ ePdfText = <<>>
    /\ ePc = "idle"
    /\ eFull = <<>>

NoEmail == [id |-> "", subject |-> <<>>, from |-> <<>>, date |-> <<>>,
            body |-> <<>>, pdfText |-> <<>>]

IdleParse ==
    /\ pMsg = [headers |-> <<>>, bodyData |-> "none", hasParts |-> FALSE, parts |-> <<>>]
    /\ pPc = "idle"
    /\ pBody = <<>>
    /\ pPdfText = <<>>
    /\ pIdx = 0
    /\ pFetched = <<>>
    /\ pOutcome = <<>>
    /\ pEmail = NoEmail

(* An optional value (string | null, number | null): none or one value.    *)
None == <<>>
Some(x) == <<x>>

(* A date string, by what new Date() makes of it: the day it names (days   *)
(* count from a fixed day), or an invalid date.                            *)
Day(n) == [valid |-> TRUE, day |-> n]
InvalidDate == [valid |-> FALSE, day |-> 0]

Transaction(date, description, amount, type) ==
    [date |-> date, description |-> description, amount |-> amount, type |-> type]

Bill(id, company, amount, dueDate, status) ==
    [id |-> id, company |-> company, amount |-> amount, dueDate |-> dueDate,
     status |-> status]

IdleName ==
    /\ nDesc = <<>>
    /\ nCompany = <<>>
    /\ nPc = "idle"
    /\ nSimilarity = <<>>

IdleScore ==
    /\ sTx = Transaction(Day(0), <<>>, 0, "debit")
    /\ sBill = Bill(0, None, None, None, "unpaid")
    /\ sPc = "idle"
    /\ sScore = <<>>

IdleMatch ==
    /\ transactions = <<>>
    /\ bills = <<>>
    /\ mPc = "idle"
    /\ unpaidBills = <<>>
    /\ mI = 0
    /\ matches = <<>>
    /\ mFrom = <<>>
    /\ mScored = {}

IdleMatcher == IdleName /\ IdleScore /\ IdleMatch

IdleBills ==
    /\ rAuth = "ok"
    /\ rListOk = TRUE
    /\ rMessages = <<>>
    /\ rFetchOk = <<>>
    /\ rAnalysis = <<>>
    /\ rPc = "idle"
    /\ rHeadersSent = FALSE
    /\ rWritten = <<>>
    /\ rEmails = <<>>
    /\ rBillResults = <<>>
    /\ rI = 0
    /\ rResponse = "open"
    /\ rCompletions = 0

NoCredentials == [owner |-> "", kind |-> "none"]

IdleAuth ==
    /\ oCredentials = NoCredentials
    /\ oReq = <<>>
    /\ oCalls = {}

IdleStatement ==
    /\ stTransactions = <<>>
    /\ stBills = <<>>
    /\ stMatches = <<>>
    /\ stPc = "idle"
    /\ stI = 0
    /\ stBatch = <<>>
    /\ stStored = <<>>
    /\ stBillDocs = <<>>

IdleServer == IdleBills /\ IdleAuth /\ IdleStatement

InitAnalyze ==
    /\ aKind \in {"bill", "statement"}
    /\ aOutcome \in Outcomes(aKind)
    /\ aPc = "called"
    /\ aResult = NoResult
    /\ IdleFilter
    /\ IdleBatch
    /\ IdleEmail
    /\ IdleParse
    /\ IdleMatcher
    /\ IdleServer

AnalyzeCall ==
    /\ aPc = "called"
    /\ aResult' = Analyze(aKind, aOutcome)
    /\ aPc' = "done"
    /\ UNCHANGED <<aKind, aOutcome>>
    /\ UNCHANGED notAnalyzeVars

NextAnalyze == AnalyzeCall

SpecAnalyze == InitAnalyze /\ [][NextAnalyze]_vars

----------------------------------------------------------------------------
(* SpecFilter: analyze() from the parsed array on (JSON.parse succeeded).  *)

DateValues == {Str("2024-01-15"), Str(""), Undef, Num(20240115)}
DescriptionValues == {Str("NETFLIX"), Str(""), Undef}
AmountValues == {Num(15), Num(0), Num(0 - 5), Str("15")}
TypeValues == {Str("debit"), Str("credit"), Str("DEBIT"), Undef}

Deviations(e) ==
    (IF e.date = Str("2024-01-15") THEN 0 ELSE 1)
    + (IF e.description = Str("NETFLIX") THEN 0 ELSE 1)
    + (IF e.amount = Num(15) THEN 0 ELSE 1)
    + (IF e.type \in {Str("debit"), Str("credit")} THEN 0 ELSE 1)

(* The elements tried: null, the valid transactions, and every object that *)
(* differs from a valid transaction in one field.                          *)
Elements ==
    {NullElem} \cup
    {e \in {Elem(FALSE, d, s, a, t) : d \in DateValues, s \in DescriptionValues,
                                     a \in AmountValues, t \in TypeValues} :
        Deviations(e) <= 1}

InitFilter ==
    /\ fArr \in SeqsUpTo(Elements, MaxTx)
    /\ fPc = "called"
    /\ fResult = NoResult
    /\ IdleAnalyze
    /\ IdleBatch
    /\ IdleEmail
    /\ IdleParse
    /\ IdleMatcher
    /\ IdleServer

FilterCall ==
    /\ fPc = "called"
    /\ fResult' = TryCatch(TxFilter(fArr), EmptyList)
    /\ fPc' = "done"
    /\ UNCHANGED fArr
    /\ UNCHANGED notFilterVars

NextFilter == FilterCall

SpecFilter == InitFilter /\ [][NextFilter]_vars

----------------------------------------------------------------------------
(* SpecBatch: analyzeBatch(emails, concurrency).                           *)

Min(a, b) == IF a < b THEN a ELSE b
Max(a, b) == IF a > b THEN a ELSE b

(* Array.prototype.slice(start, end): a negative index counts from the end *)
(* of the array, and both are clamped to the array.                        *)
RelativeIndex(len, k) == IF k < 0 THEN Max(len + k, 0) ELSE Min(k, len)

JsSlice(arr, start, end) ==
    SubSeq(arr, RelativeIndex(Len(arr), start) + 1, RelativeIndex(Len(arr), end))

ChunkTooLong(arr, i, c) == JsSlice(arr, i, i + c + 1)

(* emails.slice(i, i + concurrency)                                        *)
Chunk(arr, i, c) == JsSlice(arr, i, i + c)

NextIndexSkips(i, c) == i + c + 1

(* i += concurrency.  Below zero every slice is empty whatever i is, and   *)
(* the double that holds i stops changing once it is low enough: the model *)
(* follows i down to 0 - MaxBelowZero and holds it there.                  *)
NextIndex(i, c) == Max(i + c, 0 - MaxBelowZero)

(* What the map callback of analyzeBatch resolves to for document d.       *)
BatchItem(kind, d, value) ==
    IF kind = "bill" THEN value ELSE [email |-> d, transactions |-> value]

PendingSlot(kind) == [done |-> FALSE, val |-> BatchItem(kind, 0, FallbackOf(kind))]

PlaceInCompletionOrder(slots, pos, item) ==
    LET free == {p \in 1..Len(slots) : ~slots[p].done}
    IN  [slots EXCEPT ![MinOf(free)] = [done |-> TRUE, val |-> item]]

(* Promise.all keeps each value at the position of its promise.            *)
PromiseAllPlace(slots, pos, item) ==
    [slots EXCEPT ![pos] = [done |-> TRUE, val |-> item]]

SlotValues(slots) == [p \in 1..Len(slots) |-> slots[p].val]

(* The oracle outcomes of a batch: a rejected call, an empty text, a text  *)
(* with no span, a span that is no JSON, and valid spans.                  *)
BatchOutcomes(kind) ==
    IF kind = "bill"
    THEN {Failed, Responded(<<>>), Responded(<<"x">>), Responded(<<"{", "x", "}">>),
          Responded(<<"{", "}">>), Responded(<<"x", "{", "k", "1", "}">>)}
    ELSE {Failed, Responded(<<>>), Responded(<<"x">>), Responded(<<"[", "x", "]">>),
          Responded(<<"[", "]">>), Responded(<<"x", "[", "t", "]">>)}

Concurrencies == (0 - MaxNegConcurrency)..MaxConcurrency

InitBatch ==
    /\ bKind \in {"bill", "statement"}
    /\ \E n \in 0..MaxDocs : emails = [d \in 1..n |-> d]
    /\ concurrency \in Concurrencies
    /\ bPc = "loop"
    /\ bI = 0
    /\ batch = <<>>
    /\ batchResults = <<>>
    /\ inflight = {}
    /\ results = <<>>
    /\ resp = [d \in 1..Len(emails) |-> Failed]
    /\ calls = [d \in 1..Len(emails) |-> 0]
    /\ lastSettled = 0
    /\ IdleAnalyze
    /\ IdleFilter
    /\ IdleEmail
    /\ IdleParse
    /\ IdleMatcher
    /\ IdleServer

(* The loop test holds: slice the chunk and start analyze() for each of    *)
(* its documents; every oracle call is issued before the await.            *)
BatchStartChunk ==
    /\ bPc = "loop"
    /\ bI < Len(emails)
    /\ batch' = Chunk(emails, bI, concurrency)
    /\ batchResults' = [p \in 1..Len(batch') |-> PendingSlot(bKind)]
    /\ inflight' = 1..Len(batch')
    /\ calls' = [d \in 1..Len(emails) |->
                    calls[d] + Cardinality({p \in 1..Len(batch') : batch'[p] = d})]
    /\ bPc' = "await"
    /\ UNCHANGED <<bKind, emails, concurrency, bI, results, resp, lastSettled>>
    /\ UNCHANGED notBatchVars

(* One oracle call settles and its analyze() finishes.  If analyze()       *)
(* raised, Promise.all and with it analyzeBatch would reject.              *)
OracleSettle ==
    /\ bPc \in {"await", "rejected"}
    /\ \E p \in inflight, outcome \in BatchOutcomes(bKind) :
          LET r == Analyze(bKind, outcome)
          IN  /\ inflight' = inflight \ {p}
              /\ resp' = [resp EXCEPT ![batch[p]] = outcome]
              /\ lastSettled' = batch[p]
              /\ IF r.raised
                 THEN /\ bPc' = "rejected"
                      /\ UNCHANGED batchResults
                 ELSE /\ batchResults' =
                            PromiseAllPlace(batchResults, p,
                                            BatchItem(bKind, batch[p], r.value))
                      /\ UNCHANGED bPc
    /\ UNCHANGED <<bKind, emails, concurrency, bI, batch, results, calls>>
    /\ UNCHANGED notBatchVars

(* Promise.all resolved: results.push(...batchResults); i += concurrency.  *)
BatchContinue ==
    /\ bPc = "await"
    /\ inflight = {}
    /\ results' = results \o SlotValues(batchResults)
    /\ bI' = NextIndex(bI, concurrency)
    /\ bPc' = "loop"
    /\ UNCHANGED <<bKind, emails, concurrency, batch, batchResults, inflight,
                   resp, calls, lastSettled>>
    /\ UNCHANGED notBatchVars

(* The loop test fails: return results.                                    *)
BatchReturn ==
    /\ bPc = "loop"
    /\ ~(bI < Len(emails))
    /\ bPc' = "returned"
    /\ UNCHANGED <<bKind, emails, concurrency, bI, batch, batchResults, inflight,
                   results, resp, calls, lastSettled>>
    /\ UNCHANGED notBatchVars

NextBatch == BatchStartChunk \/ OracleSettle \/ BatchContinue \/ BatchReturn

SpecBatch == InitBatch /\ [][NextBatch]_vars

(* The event loop runs every continuation that is ready, and an oracle     *)
(* call settles (with a response or an error) in the end.                  *)
FairSpecBatch == SpecBatch /\ WF_vars(NextBatch)

----------------------------------------------------------------------------
(* SpecEmail: an Email and its fullContent getter.  A string is the        *)
(* sequence of its characters.                                             *)

MaxContentLength == 5000

(* String.prototype.substring(start, end): both indices are clamped to the *)
(* string, and swapped when start is the larger.                           *)
JsSubstring(str, start, end) ==
    LET lo == Min(Max(start, 0), Len(str))
        hi == Min(Max(end, 0), Len(str))
    IN  SubSeq(str, Min(lo, hi) + 1, Max(lo, hi))

FullContentOneMore(body, pdfText) ==
    JsSubstring(body \o pdfText, 0, MaxContentLength + 1)

(* get fullContent() { return (this.body + this.pdfText).substring(0, 5000) } *)
FullContent(body, pdfText) == JsSubstring(body \o pdfText, 0, MaxContentLength)

(* The texts tried: of every length in TextLengths, the characters of a    *)
(* body and of an attachment text differ and change along the text.        *)
TextLengths ==
    (0..MaxShort)
    \cup ((MaxContentLength \div 2 - MaxDelta)..(MaxContentLength \div 2 + MaxDelta))
    \cup ((MaxContentLength - MaxDelta)..(MaxContentLength + MaxDelta))

BodyText(n) == [i \in 1..n |-> IF i % 2 = 0 THEN "b" ELSE "c"]
PdfText(n, first) == [i \in 1..n |-> IF i = 1 THEN first ELSE IF i % 3 = 0 THEN "p" ELSE "q"]

InitEmail ==
    /\ \E n \in TextLengths : eBody = BodyText(n)
    /\ \E n \in TextLengths, first \in {"\n", "P"} : ePdfText = PdfText(n, first)
    /\ ePc = "built"
    /\ eFull = <<>>
    /\ IdleAnalyze
    /\ IdleFilter
    /\ IdleBatch
    /\ IdleParse
    /\ IdleMatcher
    /\ IdleServer

EmailFullContent ==
    /\ ePc = "built"
    /\ eFull' = FullContent(eBody, ePdfText)
    /\ ePc' = "done"
    /\ UNCHANGED <<eBody, ePdfText>>
    /\ UNCHANGED notEmailVars

NextEmail == EmailFullContent

SpecEmail == InitEmail /\ [][NextEmail]_vars

----------------------------------------------------------------------------
(* SpecParse: EmailParser.parse(gmail, msg).                               *)

(* Buffer.from(data, "base64").toString() on the payloads of the model.    *)
Base64Decode(data) ==
    CASE data = "WW8=" -> <<"Y", "o">>
      [] data = "SGk=" -> <<"H", "i">>
      [] data = "PHA+SGk8L3A+" -> <<"<", "p", ">", "H", "i", "<", "/", "p", ">">>
      [] data = "PGJyPgo8YnI+" -> <<"<", "b", "r", ">", "\n", "<", "b", "r", ">">>
      [] OTHER -> <<>>

(* body.replace(/<[^>]*>/g, " "): every tag, from a "<" to the next ">",   *)
(* becomes one space; a "<" that no ">" follows stays.                     *)
RECURSIVE ReplaceTags(_)
ReplaceTags(str) ==
    IF str = <<>> THEN <<>>
    ELSE IF Head(str) = "<" /\ Positions(str, ">") # {}
         THEN <<" ">> \o ReplaceTags(SubSeq(str, MinOf(Positions(str, ">")) + 1, Len(str)))
    ELSE <<Head(str)>> \o ReplaceTags(Tail(str))

IsSpace(c) == c \in {" ", "\n", "\t"}

(* .replace(/\s+/g, " "): every run of white space becomes one space.      *)
RECURSIVE CollapseSpace(_)
CollapseSpace(str) ==
    IF str = <<>> THEN <<>>
    ELSE IF IsSpace(Head(str))
         THEN IF Len(str) > 1 /\ IsSpace(str[2]) THEN CollapseSpace(Tail(str))
              ELSE <<" ">> \o CollapseSpace(Tail(str))
    ELSE <<Head(str)>> \o CollapseSpace(Tail(str))

StripHtml(str) == CollapseSpace(ReplaceTags(str))

(* A value read for its truth: undefined ("none") and "" are falsy.        *)
Present(data) == data # "none" /\ data # ""

(* parts.find((p) => p.mimeType === mime): the index of the first such     *)
(* part, 0 when there is none.                                             *)
FindPart(parts, mime) ==
    IF \E i \in 1..Len(parts) : parts[i].mimeType = mime
    THEN MinOf({i \in 1..Len(parts) : parts[i].mimeType = mime})
    ELSE 0

HtmlBody(parts) ==
    LET h == FindPart(parts, "text/html")
    IN  IF h # 0 /\ Present(parts[h].data)
        THEN StripHtml(Base64Decode(parts[h].data))
        ELSE <<>>

SelectBodyHtmlOverrides(msg) ==
    IF Present(msg.bodyData) THEN Base64Decode(msg.bodyData)
    ELSE IF msg.hasParts
    THEN LET t == FindPart(msg.parts, "text/plain")
             h == FindPart(msg.parts, "text/html")
             plain == IF t # 0 /\ Present(msg.parts[t].data)
                      THEN Base64Decode(msg.parts[t].data) ELSE <<>>
         IN  IF h # 0 /\ Present(msg.parts[h].data) THEN HtmlBody(msg.parts) ELSE plain
    ELSE <<>>

(* The body selection of parse (// Get body text).                         *)
SelectBody(msg) ==
    IF Present(msg.bodyData) THEN Base64Decode(msg.bodyData)
    ELSE IF msg.hasParts
    THEN LET t == FindPart(msg.parts, "text/plain")
             plain == IF t # 0 /\ Present(msg.parts[t].data)
                      THEN Base64Decode(msg.parts[t].data) ELSE <<>>
         IN  IF plain = <<>> THEN HtmlBody(msg.parts) ELSE plain
    ELSE <<>>

(* headers.find((h) => h.name === name)?.value || ""                       *)
HeaderValue(headers, name) ==
    IF \E i \in 1..Len(headers) : headers[i].name = name
    THEN headers[MinOf({i \in 1..Len(headers) : headers[i].name = name})].value
    ELSE <<>>

(* The part takes part in the attachment loop's fetch.                     *)
IsPdfAttachment(part) ==
    part.mimeType = "application/pdf" /\ Present(part.attachmentId)

(* How the work on one attachment can go: attachments.get rejects, it      *)
(* resolves without data, the PDF text extraction throws, or it yields a   *)
(* text (which may be empty).                                              *)
AttachmentOutcomes == {"fetchFailed", "noData", "extractFailed", "text", "emptyText"}

Separator == <<"\n", "\n">>
Digit(i) == IF i = 1 THEN "1" ELSE IF i = 2 THEN "2" ELSE IF i = 3 THEN "3" ELSE "4"

(* The text extracted from the attachment of part i.                       *)
ExtractedText(i, outcome) == IF outcome = "text" THEN <<"P", Digit(i)>> ELSE <<>>

AttachmentStepNoCatch(pdfText, i, outcome) ==
    IF outcome \in {"fetchFailed", "extractFailed"}
    THEN [raised |-> TRUE, pdfText |-> pdfText]
    ELSE IF outcome = "noData" THEN [raised |-> FALSE, pdfText |-> pdfText]
    ELSE [raised |-> FALSE, pdfText |-> pdfText \o Separator \o ExtractedText(i, outcome)]

(* The try/catch of the attachment loop for one part.                      *)
AttachmentStep(pdfText, i, outcome) ==
    IF outcome \in {"fetchFailed", "extractFailed", "noData"}
    THEN [raised |-> FALSE, pdfText |-> pdfText]
    ELSE [raised |-> FALSE, pdfText |-> pdfText \o Separator \o ExtractedText(i, outcome)]

Header(name, value) == [name |-> name, value |-> value]

HeaderLists ==
    {<<>>,
     <<Header("Subject", <<"B", "i", "l", "l">>), Header("From", <<"a", "@", "b">>),
       Header("Date", <<"M", "o", "n">>)>>,
     <<Header("subject", <<"B", "i", "l", "l">>), Header("Subject", <<>>)>>}

Part(mimeType, data, attachmentId) ==
    [mimeType |-> mimeType, data |-> data, attachmentId |-> attachmentId]

Parts ==
    {Part("text/plain", d, "none") : d \in {"none", "", "SGk="}}
    \cup {Part("text/html", d, "none") : d \in {"none", "PHA+SGk8L3A+", "PGJyPgo8YnI+"}}
    \cup {Part("application/pdf", "none", a) : a \in {"none", "att-1"}}

Messages ==
    {[headers |-> h, bodyData |-> b, hasParts |-> FALSE, parts |-> <<>>] :
        h \in HeaderLists, b \in {"none", "", "WW8="}}
    \cup {[headers |-> h, bodyData |-> b, hasParts |-> TRUE, parts |-> ps] :
        h \in HeaderLists, b \in {"none", "", "WW8="}, ps \in SeqsUpTo(Parts, MaxParts)}

InitParse ==
    /\ pMsg \in Messages
    /\ pPc = "get"
    /\ pBody = <<>>
    /\ pPdfText = <<>>
    /\ pIdx = 0
    /\ pFetched = <<>>
    /\ pOutcome = [i \in 1..Len(pMsg.parts) |-> "none"]
    /\ pEmail = NoEmail
    /\ IdleAnalyze
    /\ IdleFilter
    /\ IdleBatch
    /\ IdleEmail
    /\ IdleMatcher
    /\ IdleServer

(* gmail.users.messages.get rejects: parse rejects.                        *)
ParseGetFails ==
    /\ pPc = "get"
    /\ pPc' = "rejected"
    /\ UNCHANGED <<pMsg, pBody, pPdfText, pIdx, pFetched, pOutcome, pEmail>>
    /\ UNCHANGED notParseVars

(* gmail.users.messages.get resolves: the headers and the body are read,   *)
(* and the attachment loop starts.                                         *)
ParseGetResolves ==
    /\ pPc = "get"
    /\ pBody' = SelectBody(pMsg)
    /\ pIdx' = 1
    /\ pPc' = "parts"
    /\ UNCHANGED <<pMsg, pPdfText, pFetched, pOutcome, pEmail>>
    /\ UNCHANGED notParseVars

(* A part that is no PDF with an attachment reference: the loop moves on.  *)
ParseSkipPart ==
    /\ pPc = "parts"
    /\ pIdx <= Len(pMsg.parts)
    /\ ~IsPdfAttachment(pMsg.parts[pIdx])
    /\ pIdx' = pIdx + 1
    /\ UNCHANGED <<pMsg, pPc, pBody, pPdfText, pFetched, pOutcome, pEmail>>
    /\ UNCHANGED notParseVars

(* A PDF part with an attachment reference: the attachment is requested    *)
(* and, when it came, its text extracted.                                  *)
ParseAttachment ==
    /\ pPc = "parts"
    /\ pIdx <= Len(pMsg.parts)
    /\ IsPdfAttachment(pMsg.parts[pIdx])
    /\ \E outcome \in AttachmentOutcomes :
          LET step == AttachmentStep(pPdfText, pIdx, outcome)
          IN  /\ pFetched' = Append(pFetched, pIdx)
              /\ pOutcome' = [pOutcome EXCEPT ![pIdx] = outcome]
              /\ IF step.raised
                 THEN /\ pPc' = "rejected"
                      /\ UNCHANGED <<pPdfText, pIdx>>
                 ELSE /\ pPdfText' = step.pdfText
                      /\ pIdx' = pIdx + 1
                      /\ UNCHANGED pPc
    /\ UNCHANGED <<pMsg, pBody, pEmail>>
    /\ UNCHANGED notParseVars

(* return new Email({ id: msg.id, subject, from, date, body, pdfText })    *)
ParseReturn ==
    /\ pPc = "parts"
    /\ pIdx > Len(pMsg.parts)
    /\ pEmail' = [id |-> "msg-1",
                  subject |-> HeaderValue(pMsg.headers, "Subject"),
                  from |-> HeaderValue(pMsg.headers, "From"),
                  date |-> HeaderValue(pMsg.headers, "Date"),
                  body |-> pBody, pdfText |-> pPdfText]
    /\ pPc' = "returned"
    /\ UNCHANGED <<pMsg, pBody, pPdfText, pIdx, pFetched, pOutcome>>
    /\ UNCHANGED notParseVars

NextParse ==
    ParseGetFails \/ ParseGetResolves \/ ParseSkipPart \/ ParseAttachment \/ ParseReturn

SpecParse == InitParse /\ [][NextParse]_vars

----------------------------------------------------------------------------
(* JavaScript numbers are IEEE 754 binary64 values.  The matcher's numbers *)
(* are not negative; a number x is held exactly, as the natural number     *)
(* x * 2^(LimbBits * FracLimbs), written in limbs of LimbBits bits, least  *)
(* significant limb first, without leading zero limbs (zero is <<>>).      *)
(* Every operation computes the exact result and rounds it to             *)
(* SignificandBits significant bits, ties to even, as the hardware does.   *)

LimbBits == 15
FracLimbs == 5
SignificandBits == 53
LimbBase == 2^LimbBits

Limb(a, i) == IF i >= 1 /\ i <= Len(a) THEN a[i] ELSE 0

RECURSIVE Trim(_)
Trim(a) == IF a = <<>> \/ a[Len(a)] # 0 THEN a ELSE Trim(SubSeq(a, 1, Len(a) - 1))

RECURSIVE AddFrom(_, _, _, _)
AddFrom(a, b, i, carry) ==
    IF i > Len(a) /\ i > Len(b)
    THEN IF carry = 0 THEN <<>> ELSE <<carry>>
    ELSE LET s == Limb(a, i) + Limb(b, i) + carry
         IN  <<s % LimbBase>> \o AddFrom(a, b, i + 1, s \div LimbBase)

BigAdd(a, b) == AddFrom(a, b, 1, 0)

RECURSIVE MulSmallFrom(_, _, _, _)
MulSmallFrom(a, d, i, carry) ==
    IF i > Len(a)
    THEN IF carry = 0 THEN <<>> ELSE <<carry>>
    ELSE LET p == a[i] * d + carry
         IN  <<p % LimbBase>> \o MulSmallFrom(a, d, i + 1, p \div LimbBase)

BigMulSmall(a, d) == IF d = 0 THEN <<>> ELSE MulSmallFrom(a, d, 1, 0)

ShiftLimbs(a, k) == IF a = <<>> THEN <<>> ELSE [i \in 1..k |-> 0] \o a

DropLimbs(a, k) == SubSeq(a, k + 1, Len(a))

RECURSIVE MulFrom(_, _, _)
MulFrom(a, b, j) ==
    IF j > Len(b) THEN <<>>
    ELSE BigAdd(ShiftLimbs(BigMulSmall(a, b[j]), j - 1), MulFrom(a, b, j + 1))

BigMul(a, b) == MulFrom(a, b, 1)

(* Long division by a divisor of one limb, most significant limb first.    *)
RECURSIVE DivSmall(_, _)
DivSmall(a, n) ==
    IF a = <<>> THEN [q |-> <<>>, r |-> 0]
    ELSE LET hi  == DivSmall(Tail(a), n)
             cur == hi.r * LimbBase + Head(a)
         IN  [q |-> <<cur \div n>> \o hi.q, r |-> cur % n]

RECURSIVE BigLessFrom(_, _, _)
BigLessFrom(a, b, i) ==
    IF i = 0 THEN FALSE
    ELSE IF a[i] # b[i] THEN a[i] < b[i]
    ELSE BigLessFrom(a, b, i - 1)

BigLess(a, b) ==
    IF Len(a) # Len(b) THEN Len(a) < Len(b) ELSE BigLessFrom(a, b, Len(a))

BitLen(a) ==
    IF a = <<>> THEN 0
    ELSE LimbBits * (Len(a) - 1)
         + (CHOOSE k \in 1..LimbBits : 2^(k - 1) <= a[Len(a)] /\ a[Len(a)] < 2^k)

Bit(a, i) == (Limb(a, i \div LimbBits + 1) \div 2^(i % LimbBits)) % 2

LowBitsZero(a, r) ==
    /\ \A j \in 1..(r \div LimbBits) : Limb(a, j) = 0
    /\ Limb(a, r \div LimbBits + 1) % 2^(r % LimbBits) = 0

ClearLowBits(a, r) ==
    [i \in 1..Len(a) |->
        IF i <= r \div LimbBits THEN 0
        ELSE IF i = r \div LimbBits + 1
             THEN (a[i] \div 2^(r % LimbBits)) * 2^(r % LimbBits)
             ELSE a[i]]

PowerOfTwo(r) ==
    [i \in 1..(r \div LimbBits + 1) |->
        IF i = r \div LimbBits + 1 THEN 2^(r % LimbBits) ELSE 0]

(* Round to nearest, ties to even; inexact: the exact value is a little    *)
(* more than a (what a division's remainder leaves).                       *)
RoundToDouble(a, inexact) ==
    LET r == BitLen(a) - SignificandBits
    IN  IF r <= 0 THEN a
        ELSE LET half == Bit(a, r - 1) = 1
                 more == inexact \/ ~LowBitsZero(a, r - 1)
                 odd  == Bit(a, r) = 1
             IN  IF half /\ (more \/ odd)
                 THEN BigAdd(ClearLowBits(a, r), PowerOfTwo(r))
                 ELSE ClearLowBits(a, r)

(* The number of an integer-valued double.                                 *)
FromInt(n) == ShiftLimbs(Trim(<<n % LimbBase, n \div LimbBase>>), FracLimbs)

FlAdd(x, y) == RoundToDouble(BigAdd(x, y), FALSE)

FlMul(x, y) == DropLimbs(RoundToDouble(BigMul(x, y), FALSE), FracLimbs)

(* k / n for integer-valued doubles k >= 0 and 0 < n < LimbBase; also the  *)
(* value of the decimal literal k/n (0.3 is FlDiv(3, 10)).                 *)
FlDiv(k, n) ==
    LET d == DivSmall(FromInt(k), n)
    IN  RoundToDouble(Trim(d.q), d.r # 0)

FlLess(x, y) == BigLess(x, y)
FlLeq(x, y) == ~BigLess(y, x)

(* Math.round(x): the integer floor(x + 0.5), computed exactly.            *)
MathRound(x) ==
    LET n == DropLimbs(BigAdd(x, FlDiv(1, 2)), FracLimbs)
    IN  Limb(n, 1) + LimbBase * Limb(n, 2)

Zero == <<>>
One == FromInt(1)
Hundred == FromInt(100)

----------------------------------------------------------------------------
(* Strings of the matcher.  A string is the sequence of its characters.    *)

UpperCase == <<"A", "B", "C", "D", "E", "F", "G", "H", "I", "J", "K", "L", "M",
               "N", "O", "P", "Q", "R", "S", "T", "U", "V", "W", "X", "Y", "Z">>
LowerCase == <<"a", "b", "c", "d", "e", "f", "g", "h", "i", "j", "k", "l", "m",
               "n", "o", "p", "q", "r", "s", "t", "u", "v", "w", "x", "y", "z">>

(* String.prototype.toLowerCase                                            *)
ToLowerCase(str) ==
    [i \in 1..Len(str) |->
        IF \E k \in 1..Len(UpperCase) : UpperCase[k] = str[i]
        THEN LowerCase[CHOOSE k \in 1..Len(UpperCase) : UpperCase[k] = str[i]]
        ELSE str[i]]

(* String.prototype.includes                                               *)
Includes(str, search) ==
    \E i \in 0..(Len(str) - Len(search)) : SubSeq(str, i + 1, i + Len(search)) = search

(* str.split(/\s+/) from position i on, cur the field being read: a run of *)
(* white space ends a field, also an empty one at either end of str.       *)
RECURSIVE SplitFrom(_, _, _)
SplitFrom(str, i, cur) ==
    IF i > Len(str) THEN <<cur>>
    ELSE IF IsSpace(str[i])
         THEN IF i > 1 /\ IsSpace(str[i - 1])
              THEN SplitFrom(str, i + 1, cur)
              ELSE <<cur>> \o SplitFrom(str, i + 1, <<>>)
         ELSE SplitFrom(str, i + 1, Append(cur, str[i]))

SplitWhiteSpace(str) == SplitFrom(str, 1, <<>>)

WordsAtLeastTwo(str) == SelectSeq(SplitWhiteSpace(str), LAMBDA w : Len(w) >= 2)

(* str.split(/\s+/).filter((w) => w.length > 2)                            *)
LongWords(str) == SelectSeq(SplitWhiteSpace(str), LAMBDA w : Len(w) > 2)

----------------------------------------------------------------------------
(* BillMatcher.calculateNameSimilarity                                     *)

CommonMappings == <<
    [category |-> <<"e", "l", "e", "c", "t", "r", "i", "c", "i", "t", "y">>,
     keywords |-> <<<<"a", "g", "l">>,
                   <<"o", "r", "i", "g", "i", "n">>,
                   <<"e", "n", "e", "r", "g", "y">>,
                   <<"a", "u", "s", "g", "r", "i", "d">>>>],
    [category |-> <<"i", "n", "t", "e", "r", "n", "e", "t">>,
     keywords |-> <<<<"o", "p", "t", "u", "s">>,
                   <<"t", "e", "l", "s", "t", "r", "a">>,
                   <<"n", "b", "n">>,
                   <<"t", "p", "g">>,
                   <<"i", "i", "n", "e", "t">>>>],
    [category |-> <<"p", "h", "o", "n", "e">>,
     keywords |-> <<<<"o", "p", "t", "u", "s">>,
                   <<"t", "e", "l", "s", "t", "r", "a">>,
                   <<"v", "o", "d", "a", "f", "o", "n", "e">>,
                   <<"a", "m", "a", "y", "s", "i", "m">>>>],
    [category |-> <<"i", "n", "s", "u", "r", "a", "n", "c", "e">>,
     keywords |-> <<<<"n", "r", "m", "a">>,
                   <<"a", "l", "l", "i", "a", "n", "z">>,
                   <<"q", "b", "e">>,
                   <<"s", "u", "n", "c", "o", "r", "p">>>>],
    [category |-> <<"n", "e", "t", "f", "l", "i", "x">>,
     keywords |-> <<<<"n", "e", "t", "f", "l", "i", "x">>>>],
    [category |-> <<"s", "p", "o", "t", "i", "f", "y">>,
     keywords |-> <<<<"s", "p", "o", "t", "i", "f", "y">>>>],
    [category |-> <<"a", "m", "a", "z", "o", "n">>,
     keywords |-> <<<<"a", "m", "z", "n">>,
                   <<"a", "m", "a", "z", "o", "n">>,
                   <<"a", "w", "s">>>>]
>>

CategorySimilarity == FlDiv(8, 10)

(* keywords.some((kw) => txDesc.includes(kw))                              *)
HasKeyword(txDesc, keywords) ==
    \E k \in 1..Len(keywords) : Includes(txDesc, keywords[k])

(* the loop over Object.entries(commonMappings)                            *)
CategoryMatches(txDesc, billCompany) ==
    \E c \in 1..Len(CommonMappings) :
        /\ Includes(billCompany, CommonMappings[c].category)
        /\ HasKeyword(txDesc, CommonMappings[c].keywords)

(* the loop over billWords: matchCount                                     *)
RECURSIVE MatchCount(_, _)
MatchCount(txDesc, billWords) ==
    IF billWords = <<>> THEN 0
    ELSE (IF Includes(txDesc, Head(billWords)) THEN 1 ELSE 0)
         + MatchCount(txDesc, Tail(billWords))

CalculateNameSimilarity(txDesc, billCompany) ==
    LET billWords == LongWords(billCompany)
    IN  IF Len(billWords) = 0 THEN Zero
        ELSE IF Includes(txDesc, billCompany) THEN One
        ELSE IF CategoryMatches(txDesc, billCompany) THEN CategorySimilarity
        ELSE FlDiv(MatchCount(txDesc, billWords), Len(billWords))

(* SpecName: the call of calculateNameSimilarity in calculateMatchScore,   *)
(* on every description and company name of up to MaxName characters of    *)
(* NameAlphabet, and on the descriptions and names of NamedDescriptions    *)
(* and NamedCompanies.  bill.company is truthy there: it is not empty.     *)

NameAlphabet == {"a", "B", " "}

NamedDescriptions == {
    <<"P", "A", "Y", " ", "n", "e", "t", "f", "l", "i", "x">>,
    <<"a", "m", "z", "n", " ", "d", "i", "g", "i", "t", "a", "l">>,
    <<"a", "g", "l", " ", "e", "n", "e", "r", "g", "y">>,
    <<"o", "p", "t", "u", "s", " ", "i", "n", "t", "e", "r", "n", "e", "t">>,
    <<"a", "c", "m", "e", " ", "c", "o", "r", "p", " ", "b", "i", "l", "l", "i", "n", "g">>,
    <<"B", "P", " ", "F", "U", "E", "L">>}

NamedCompanies == {
    <<"N", "e", "t", "f", "l", "i", "x">>,
    <<"A", "m", "a", "z", "o", "n">>,
    <<"e", "l", "e", "c", "t", "r", "i", "c", "i", "t", "y", " ", "b", "i", "l", "l">>,
    <<"i", "n", "t", "e", "r", "n", "e", "t", " ", "p", "l", "a", "n">>,
    <<"A", "c", "m", "e", " ", "C", "o", "r", "p", "o", "r", "a", "t", "i", "o", "n", " ", "S", "e", "r", "v", "i", "c", "e", "s">>,
    <<"B", "P">>}

NamePairs ==
    (SeqsUpTo(NameAlphabet, MaxName) \X (SeqsUpTo(NameAlphabet, MaxName) \ {<<>>}))
    \cup (NamedDescriptions \X NamedCompanies)

InitName ==
    /\ \E pair \in NamePairs : nDesc = pair[1] /\ nCompany = pair[2]
    /\ nPc = "called"
    /\ nSimilarity = Zero
    /\ IdleScore
    /\ IdleMatch
    /\ IdleAnalyze
    /\ IdleFilter
    /\ IdleBatch
    /\ IdleEmail
    /\ IdleParse
    /\ IdleServer

NameCall ==
    /\ nPc = "called"
    /\ nSimilarity' = CalculateNameSimilarity(ToLowerCase(nDesc), ToLowerCase(nCompany))
    /\ nPc' = "done"
    /\ UNCHANGED <<nDesc, nCompany>>
    /\ UNCHANGED notNameVars

NextName == NameCall

SpecName == InitName /\ [][NextName]_vars

----------------------------------------------------------------------------
(* BillMatcher.calculateMatchScore.  Amounts are integer-valued numbers:   *)
(* their difference is exact.  Dates are date-only strings, which Date     *)
(* reads as midnight UTC: getTime() differs by a whole number of days.     *)

AmountTolerance == FlDiv(2, 100)
CloseTolerance == FlDiv(5, 100)
AmountWeight == FlDiv(5, 10)
CloseWeight == FlDiv(3, 10)
DateWeight == FlDiv(3, 10)
PartialDateWeight == FlDiv(15, 100)
NameWeight == FlDiv(2, 10)

(* if (bill.amount), !bill.amount: null and 0 are falsy                    *)
NumberTruthy(v) == v # None /\ v[1] # 0
(* if (bill.company): null and "" are falsy                                *)
StringTruthy(v) == v # None /\ v[1] # <<>>

Abs(n) == IF n < 0 THEN 0 - n ELSE n

AmountStepFullWeight(tx, bill, score) ==
    IF NumberTruthy(bill.amount)
    THEN LET amountDiff == FlDiv(Abs(tx.amount - bill.amount[1]), bill.amount[1])
         IN  IF FlLeq(amountDiff, CloseTolerance)
             THEN [returned |-> FALSE, score |-> FlAdd(score, AmountWeight)]
             ELSE [returned |-> TRUE, score |-> Zero]
    ELSE [returned |-> FALSE, score |-> score]

AmountStepStrict(tx, bill, score) ==
    IF NumberTruthy(bill.amount)
    THEN LET amountDiff == FlDiv(Abs(tx.amount - bill.amount[1]), bill.amount[1])
         IN  IF FlLess(amountDiff, AmountTolerance)
             THEN [returned |-> FALSE, score |-> FlAdd(score, AmountWeight)]
             ELSE IF FlLess(amountDiff, CloseTolerance)
                  THEN [returned |-> FALSE, score |-> FlAdd(score, CloseWeight)]
                  ELSE [returned |-> TRUE, score |-> Zero]
    ELSE [returned |-> FALSE, score |-> score]

(* Amount matching: what it leaves in score, or the 0 it returns           *)
AmountStep(tx, bill, score) ==
    IF NumberTruthy(bill.amount)
    THEN LET amountDiff == FlDiv(Abs(tx.amount - bill.amount[1]), bill.amount[1])
         IN  IF FlLeq(amountDiff, AmountTolerance)
             THEN [returned |-> FALSE, score |-> FlAdd(score, AmountWeight)]
             ELSE IF FlLeq(amountDiff, CloseTolerance)
                  THEN [returned |-> FALSE, score |-> FlAdd(score, CloseWeight)]
                  ELSE [returned |-> TRUE, score |-> Zero]
    ELSE [returned |-> FALSE, score |-> score]

DateStepShortWindow(tx, bill, score) ==
    IF bill.dueDate # None
    THEN LET isNumber == tx.date.valid /\ bill.dueDate[1].valid
             daysDiff == tx.date.day - bill.dueDate[1].day
         IN  IF isNumber /\ daysDiff >= -7 /\ daysDiff < 14
             THEN FlAdd(score, DateWeight)
             ELSE IF isNumber /\ daysDiff >= -14 /\ daysDiff < 30
                  THEN FlAdd(score, PartialDateWeight)
                  ELSE score
    ELSE score

(* Date matching: what it leaves in score.  With an invalid date daysDiff  *)
(* is NaN and no comparison holds.                                         *)
DateStep(tx, bill, score) ==
    IF bill.dueDate # None
    THEN LET isNumber == tx.date.valid /\ bill.dueDate[1].valid
             daysDiff == tx.date.day - bill.dueDate[1].day
         IN  IF isNumber /\ daysDiff >= -7 /\ daysDiff <= 14
             THEN FlAdd(score, DateWeight)
             ELSE IF isNumber /\ daysDiff >= -14 /\ daysDiff <= 30
                  THEN FlAdd(score, PartialDateWeight)
                  ELSE score
    ELSE score

(* Company name matching: what it leaves in score                          *)
NameStep(tx, bill, score) ==
    IF StringTruthy(bill.company)
    THEN LET similarity == CalculateNameSimilarity(ToLowerCase(tx.description),
                                                   ToLowerCase(bill.company[1]))
         IN  FlAdd(score, FlMul(similarity, NameWeight))
    ELSE score

CalculateMatchScore(tx, bill) ==
    LET amount == AmountStep(tx, bill, Zero)
    IN  IF amount.returned THEN amount.score
        ELSE NameStep(tx, bill, DateStep(tx, bill, amount.score))

(* SpecScore: one call of calculateMatchScore, a step per component.  The  *)
(* transaction's amount is within MaxAmountDelta of the bill's, its date   *)
(* from MaxBefore days before the due date to MaxAfter days after it.      *)
(* findBestMatch, the only caller, passes bills with a truthy amount.      *)

ScoreDescription == <<"a", "c", "m", "e", " ", "p", "a", "y">>
ScoreCompanies == {None, Some(<<"A", "c", "m", "e">>), Some(<<"Z", "e", "t", "a">>)}
ScoreBillAmounts == {50, 100}
DueDay == Day(MaxBefore)
ScoreDueDates == {None, Some(DueDay), Some(InvalidDate)}
ScoreTxDates == {Day(d) : d \in 0..(MaxBefore + MaxAfter)} \cup {InvalidDate}

InitScore ==
    /\ \E amount \in ScoreBillAmounts, company \in ScoreCompanies,
          dueDate \in ScoreDueDates, date \in ScoreTxDates,
          delta \in (0 - MaxAmountDelta)..MaxAmountDelta :
          /\ sBill = Bill(1, company, Some(amount), dueDate, "unpaid")
          /\ sTx = Transaction(date, ScoreDescription, amount + delta, "debit")
    /\ sPc = "amount"
    /\ sScore = Zero
    /\ IdleName
    /\ IdleMatch
    /\ IdleAnalyze
    /\ IdleFilter
    /\ IdleBatch
    /\ IdleEmail
    /\ IdleParse
    /\ IdleServer

ScoreAmount ==
    /\ sPc = "amount"
    /\ sScore' = AmountStep(sTx, sBill, sScore).score
    /\ sPc' = IF AmountStep(sTx, sBill, sScore).returned THEN "done" ELSE "date"
    /\ UNCHANGED <<sTx, sBill>>
    /\ UNCHANGED notScoreVars

ScoreDate ==
    /\ sPc = "date"
    /\ sScore' = DateStep(sTx, sBill, sScore)
    /\ sPc' = "name"
    /\ UNCHANGED <<sTx, sBill>>
    /\ UNCHANGED notScoreVars

ScoreName ==
    /\ sPc = "name"
    /\ sScore' = NameStep(sTx, sBill, sScore)
    /\ sPc' = "done"
    /\ UNCHANGED <<sTx, sBill>>
    /\ UNCHANGED notScoreVars

NextScore == ScoreAmount \/ ScoreDate \/ ScoreName

SpecScore == InitScore /\ [][NextScore]_vars

----------------------------------------------------------------------------
(* BillMatcher.matchTransactionsToBills and findBestMatch.                 *)

Threshold == FlDiv(5, 10)

ConfidenceUnscaled(score) == MathRound(score)

(* Math.round(score * 100)                                                 *)
Confidence(score) == MathRound(FlMul(score, Hundred))

NewMatch(tx, bill, score) ==
    [transactionDate |-> tx.date,
     transactionDescription |-> tx.description,
     transactionAmount |-> tx.amount,
     billId |-> bill.id,
     billCompany |-> bill.company,
     billAmount |-> bill.amount,
     billDueDate |-> bill.dueDate,
     confidence |-> Confidence(score)]

IsBetterAboveThreshold(score, bestScore) ==
    FlLess(bestScore, score) /\ FlLess(Threshold, score)

IsBetterOrEqual(score, bestScore) ==
    FlLeq(bestScore, score) /\ FlLeq(Threshold, score)

(* score > bestScore && score >= 0.5                                       *)
IsBetter(score, bestScore) ==
    FlLess(bestScore, score) /\ FlLeq(Threshold, score)

NumberNotNull(v) == v # None

(* if (!bill.amount) continue: is the bill passed to calculateMatchScore   *)
IsScored(amount) == NumberTruthy(amount)

(* the ids of the bills the loop of findBestMatch passes on                *)
ScoredIds(bs) == {bs[i].id : i \in {j \in 1..Len(bs) : IsScored(bs[j].amount)}}

(* the loop of findBestMatch from bills[i] on                              *)
RECURSIVE FindBestFrom(_, _, _, _, _)
FindBestFrom(tx, bs, i, bestMatch, bestScore) ==
    IF i > Len(bs) THEN bestMatch
    ELSE IF ~IsScored(bs[i].amount)
         THEN FindBestFrom(tx, bs, i + 1, bestMatch, bestScore)
         ELSE LET score == CalculateMatchScore(tx, bs[i])
              IN  IF IsBetter(score, bestScore)
                  THEN FindBestFrom(tx, bs, i + 1, Some(NewMatch(tx, bs[i], score)), score)
                  ELSE FindBestFrom(tx, bs, i + 1, bestMatch, bestScore)

(* null (None), or the best match                                          *)
FindBestMatch(tx, bs) == FindBestFrom(tx, bs, 1, None, Zero)

AllBills(bs) == bs

(* bills.filter((b) => b.status !== "paid")                                *)
UnpaidBills(bs) == SelectSeq(bs, LAMBDA b : b.status # "paid")

AnyType(tx) == TRUE

(* if (tx.type !== "debit") continue                                       *)
IsDebit(tx) == tx.type = "debit"

PushFront(ms, match) == <<match>> \o ms

(* matches.push(match)                                                     *)
Push(ms, match) == Append(ms, match)

(* The value a call returns: the loop over the transactions, from i on.    *)
RECURSIVE MatchFrom(_, _, _, _)
MatchFrom(txs, unpaid, i, ms) ==
    IF i > Len(txs) THEN ms
    ELSE IF ~IsDebit(txs[i]) THEN MatchFrom(txs, unpaid, i + 1, ms)
    ELSE LET match == FindBestMatch(txs[i], unpaid)
         IN  MatchFrom(txs, unpaid, i + 1,
                       IF match # None THEN Push(ms, match[1]) ELSE ms)

MatchTransactionsToBills(txs, bs) == MatchFrom(txs, UnpaidBills(bs), 1, <<>>)

(* SpecMatch: one call of matchTransactionsToBills, a step per             *)
(* transaction.  A bill's id is its position in bills.                     *)

MatchDay == Day(0)
MatchDescription == <<"a", "c", "m", "e", " ", "p", "a", "y">>

TxShapes == {
    Transaction(MatchDay, MatchDescription, 100, "debit"),
    Transaction(MatchDay, MatchDescription, 104, "debit"),
    Transaction(MatchDay, MatchDescription, 100, "credit")}

BillShapes == {
    Bill(0, Some(<<"A", "c", "m", "e">>), Some(100), Some(MatchDay), "unpaid"),
    Bill(0, None, Some(100), Some(MatchDay), "unpaid"),
    Bill(0, None, Some(100), None, "unpaid"),
    Bill(0, Some(<<"A", "c", "m", "e">>), Some(100), Some(MatchDay), "paid"),
    Bill(0, Some(<<"A", "c", "m", "e">>), None, Some(MatchDay), "unpaid"),
    Bill(0, Some(<<"A", "c", "m", "e">>), Some(0), Some(MatchDay), "unpaid")}

WithIds(shapes) == [i \in 1..Len(shapes) |-> [shapes[i] EXCEPT !.id = i]]

InitMatch ==
    /\ transactions \in SeqsUpTo(TxShapes, MaxMatchTx)
    /\ bills \in {WithIds(shapes) : shapes \in SeqsUpTo(BillShapes, MaxBills)}
    /\ mPc = "called"
    /\ unpaidBills = <<>>
    /\ mI = 0
    /\ matches = <<>>
    /\ mFrom = <<>>
    /\ mScored = {}
    /\ IdleName
    /\ IdleScore
    /\ IdleAnalyze
    /\ IdleFilter
    /\ IdleBatch
    /\ IdleEmail
    /\ IdleParse
    /\ IdleServer

MatchEnter ==
    /\ mPc = "called"
    /\ unpaidBills' = UnpaidBills(bills)
    /\ mI' = 1
    /\ mPc' = "loop"
    /\ UNCHANGED <<transactions, bills, matches, mFrom, mScored>>
    /\ UNCHANGED notMatchVars

MatchSkip ==
    /\ mPc = "loop"
    /\ mI <= Len(transactions)
    /\ ~IsDebit(transactions[mI])
    /\ mI' = mI + 1
    /\ UNCHANGED <<transactions, bills, mPc, unpaidBills, matches, mFrom, mScored>>
    /\ UNCHANGED notMatchVars

MatchTransaction ==
    /\ mPc = "loop"
    /\ mI <= Len(transactions)
    /\ IsDebit(transactions[mI])
    /\ LET match == FindBestMatch(transactions[mI], unpaidBills)
       IN  /\ matches' = IF match # None THEN Push(matches, match[1]) ELSE matches
           /\ mFrom' = IF match # None THEN Append(mFrom, mI) ELSE mFrom
    /\ mScored' = mScored \cup {<<mI, id>> : id \in ScoredIds(unpaidBills)}
    /\ mI' = mI + 1
    /\ UNCHANGED <<transactions, bills, mPc, unpaidBills>>
    /\ UNCHANGED notMatchVars

MatchReturn ==
    /\ mPc = "loop"
    /\ mI > Len(transactions)
    /\ mPc' = "returned"
    /\ UNCHANGED <<transactions, bills, unpaidBills, mI, matches, mFrom, mScored>>
    /\ UNCHANGED notMatchVars

NextMatch == MatchEnter \/ MatchSkip \/ MatchTransaction \/ MatchReturn

SpecMatch == InitMatch /\ [][NextMatch]_vars

----------------------------------------------------------------------------
(* GET /gmail/bills/analyze: one request, a step per await of the handler. *)
(* The handler's Gmail calls and analyzeBatch are taken by their outcomes: *)
(* messages.list and each messages.get resolve or reject, analyzeBatch     *)
(* resolves with one value per Email, each null or the object JSON.parse   *)
(* made of the oracle's text.                                              *)

AcceptThreshold == 50

(* The messages of the mailbox, as messages.get and the headers give them. *)
StoredMessages ==
    <<[id |-> "m1", subject |-> "s1", from |-> "f1", date |-> "d1"],
      [id |-> "m2", subject |-> "s2", from |-> "f2", date |-> "d2"],
      [id |-> "m3", subject |-> "s3", from |-> "f3", date |-> "d3"],
      [id |-> "m4", subject |-> "s4", from |-> "f4", date |-> "d4"]>>

(* The Email EmailParser.parse returns for a message it could fetch.       *)
ParsedEmail(msg) ==
    [id |-> msg.id, subject |-> msg.subject, from |-> msg.from, date |-> msg.date]

(* What analyze() returns: null, or an object; a member the object does    *)
(* not have reads as undefined.  Of the members only isBill, confidence    *)
(* and id are followed.                                                    *)
BillData(isBill, confidence, id) ==
    [isNull |-> FALSE, isBill |-> isBill, confidence |-> confidence, id |-> id]

NullBillData == [isNull |-> TRUE, isBill |-> Undef, confidence |-> Undef, id |-> Undef]

(* v > k for a number or an absent member (undefined > k is false)         *)
JsGreater(v, k) == v.t = "number" /\ v.n > k

(* billData && billData.isBill && billData.confidence > 50                 *)
IsAccepted(billData) ==
    /\ ~billData.isNull
    /\ Truthy(billData.isBill)
    /\ JsGreater(billData.confidence, AcceptThreshold)

(* { id: email.id, emailSubject: ..., ...billData }: a member of billData  *)
(* replaces the member of the same name written before the spread.         *)
BillEventData(email, billData) ==
    [id |-> IF billData.id # Undef THEN billData.id ELSE Str(email.id),
     emailSubject |-> email.subject,
     emailFrom |-> email.from,
     emailDate |-> email.date,
     isBill |-> billData.isBill,
     confidence |-> billData.confidence]

NoData ==
    [id |-> Undef, emailSubject |-> "", emailFrom |-> "", emailDate |-> "",
     isBill |-> Undef, confidence |-> Undef]

(* The events of the stream.  index is the value of i at the write (0      *)
(* before the loop).                                                       *)
ProgressEvent(stage, current, total) ==
    [event |-> "progress", stage |-> stage, current |-> current, total |-> total,
     index |-> 0, data |-> NoData]

BillEvent(i, data) ==
    [event |-> "bill", stage |-> "", current |-> 0, total |-> 0,
     index |-> i, data |-> data]

BillDatas ==
    {NullBillData, BillData(Bool(TRUE), Undef, Undef), BillData(Bool(TRUE), Num(51), Str("x"))}
    \cup {BillData(b, Num(c), Undef) :
            b \in {Bool(TRUE), Bool(FALSE), Str("false")},
            c \in {AcceptThreshold, AcceptThreshold + 1}}

InitBills ==
    /\ rAuth \in {"nouid", "notokens", "ok"}
    /\ rListOk \in BOOLEAN
    /\ \E n \in 0..MaxMessages :
          /\ rMessages = SubSeq(StoredMessages, 1, n)
          /\ rFetchOk \in [1..n -> BOOLEAN]
          /\ rAnalysis \in [1..n -> BillDatas]
    /\ rPc = "start"
    /\ rHeadersSent = FALSE
    /\ rWritten = <<>>
    /\ rEmails = <<>>
    /\ rBillResults = <<>>
    /\ rI = 0
    /\ rResponse = "open"
    /\ rCompletions = 0
    /\ IdleAuth
    /\ IdleStatement
    /\ IdleAnalyze
    /\ IdleFilter
    /\ IdleBatch
    /\ IdleEmail
    /\ IdleParse
    /\ IdleMatcher

(* if (!uid) return res.status(400).json(...); else await getValidTokens   *)
BillsStart ==
    /\ rPc = "start"
    /\ IF rAuth = "nouid"
       THEN /\ rResponse' = "error"
            /\ rCompletions' = rCompletions + 1
            /\ rHeadersSent' = TRUE
            /\ rPc' = "done"
       ELSE /\ rPc' = "tokens"
            /\ UNCHANGED <<rResponse, rCompletions, rHeadersSent>>
    /\ UNCHANGED <<rAuth, rListOk, rMessages, rFetchOk, rAnalysis, rWritten,
                   rEmails, rBillResults, rI>>
    /\ UNCHANGED notBillsVars

(* getValidTokens resolved: 401 without tokens; else setCredentials, the   *)
(* three setHeader calls and, in the try block, the call of messages.list  *)
BillsTokens ==
    /\ rPc = "tokens"
    /\ IF rAuth = "notokens"
       THEN /\ rResponse' = "error"
            /\ rCompletions' = rCompletions + 1
            /\ rHeadersSent' = TRUE
            /\ rPc' = "done"
       ELSE /\ rPc' = "list"
            /\ UNCHANGED <<rResponse, rCompletions, rHeadersSent>>
    /\ UNCHANGED <<rAuth, rListOk, rMessages, rFetchOk, rAnalysis, rWritten,
                   rEmails, rBillResults, rI>>
    /\ UNCHANGED notBillsVars

(* messages.list settled: on a rejection the catch block; else the first   *)
(* progress event is written and EmailParser.parse is called for each      *)
(* message                                                                 *)
BillsList ==
    /\ rPc = "list"
    /\ IF rListOk
       THEN /\ rWritten' = Append(rWritten, ProgressEvent("parsing", 0, Len(rMessages)))
            /\ rHeadersSent' = TRUE
            /\ rPc' = "parse"
       ELSE /\ rPc' = "catch"
            /\ UNCHANGED <<rWritten, rHeadersSent>>
    /\ UNCHANGED <<rAuth, rListOk, rMessages, rFetchOk, rAnalysis, rEmails,
                   rBillResults, rI, rResponse, rCompletions>>
    /\ UNCHANGED notBillsVars

AllParsed(messages) == [i \in 1..Len(messages) |-> ParsedEmail(messages[i])]

(* await Promise.all(messages.map((msg) => EmailParser.parse(gmail, msg))) *)
(* rejects when one parse rejects; else emails is assigned, the second     *)
(* progress event written and analyzeBatch called                          *)
BillsParse ==
    /\ rPc = "parse"
    /\ IF \A i \in 1..Len(rMessages) : rFetchOk[i]
       THEN /\ rEmails' = AllParsed(rMessages)
            /\ rWritten' = Append(rWritten, ProgressEvent("analyzing", 0, Len(rEmails')))
            /\ rPc' = "analyze"
       ELSE /\ rPc' = "catch"
            /\ UNCHANGED <<rEmails, rWritten>>
    /\ UNCHANGED <<rAuth, rListOk, rMessages, rFetchOk, rAnalysis, rHeadersSent,
                   rBillResults, rI, rResponse, rCompletions>>
    /\ UNCHANGED notBillsVars

(* await billAnalyzer.analyzeBatch(emails, 5) resolved                     *)
BillsAnalyze ==
    /\ rPc = "analyze"
    /\ rBillResults' = rAnalysis
    /\ rI' = 0
    /\ rPc' = "send"
    /\ UNCHANGED <<rAuth, rListOk, rMessages, rFetchOk, rAnalysis, rHeadersSent,
                   rWritten, rEmails, rResponse, rCompletions>>
    /\ UNCHANGED notBillsVars

(* one turn of the loop that sends the results: i is 0-based               *)
EventsOf(i, emailList, billResults) ==
    <<ProgressEvent("complete", i + 1, Len(emailList))>>
    \o (IF IsAccepted(billResults[i + 1])
        THEN <<BillEvent(i, BillEventData(emailList[i + 1], billResults[i + 1]))>>
        ELSE <<>>)

BillsSend ==
    /\ rPc = "send"
    /\ rI < Len(rEmails)
    /\ rWritten' = rWritten \o EventsOf(rI, rEmails, rBillResults)
    /\ rI' = rI + 1
    /\ UNCHANGED <<rAuth, rListOk, rMessages, rFetchOk, rAnalysis, rPc, rHeadersSent,
                   rEmails, rBillResults, rResponse, rCompletions>>
    /\ UNCHANGED notBillsVars

(* res.end()                                                               *)
BillsEnd ==
    /\ rPc = "send"
    /\ ~(rI < Len(rEmails))
    /\ rResponse' = "ended"
    /\ rCompletions' = rCompletions + 1
    /\ rPc' = "done"
    /\ UNCHANGED <<rAuth, rListOk, rMessages, rFetchOk, rAnalysis, rHeadersSent,
                   rWritten, rEmails, rBillResults, rI>>
    /\ UNCHANGED notBillsVars

(* catch (err): res.status(500).json(...).  Once the headers are sent,     *)
(* json() fails on setting Content-Type and the handler's promise rejects. *)
BillsCatch ==
    /\ rPc = "catch"
    /\ IF rHeadersSent
       THEN /\ rPc' = "threw"
            /\ UNCHANGED <<rResponse, rCompletions, rHeadersSent>>
       ELSE /\ rResponse' = "error"
            /\ rCompletions' = rCompletions + 1
            /\ rHeadersSent' = TRUE
            /\ rPc' = "done"
    /\ UNCHANGED <<rAuth, rListOk, rMessages, rFetchOk, rAnalysis, rWritten,
                   rEmails, rBillResults, rI>>
    /\ UNCHANGED notBillsVars

(* What becomes of the response after the rejection is up to the framework *)
(* and the runtime: the connection is destroyed, or it stays open with     *)
(* nothing more written.                                                   *)
BillsRejected ==
    /\ rPc = "threw"
    /\ \/ rResponse' = "aborted" /\ rPc' = "done"
       \/ rResponse' = "open" /\ rPc' = "hung"
    /\ UNCHANGED <<rAuth, rListOk, rMessages, rFetchOk, rAnalysis, rHeadersSent,
                   rWritten, rEmails, rBillResults, rI, rCompletions>>
    /\ UNCHANGED notBillsVars

NextBills ==
    \/ BillsStart
    \/ BillsTokens
    \/ BillsList
    \/ BillsParse
    \/ BillsAnalyze
    \/ BillsSend
    \/ BillsEnd
    \/ BillsCatch
    \/ BillsRejected

SpecBills == InitBills /\ [][NextBills]_vars

(* The event loop runs every continuation that is ready, and every call    *)
(* the handler awaits settles in the end.                                  *)
FairSpecBills == SpecBills /\ WF_vars(NextBills)

----------------------------------------------------------------------------
(* Requests of different users served at once.  All handlers use the one   *)
(* oAuth2Client of the module; a handler runs from one await to the next   *)
(* without another handler running in between.  A call of the Gmail API    *)
(* or a token refresh is made with the credentials the client holds when   *)
(* the call is made.                                                       *)

Uids == {"u1", "u2"}

(* setCredentials({ refresh_token: tokens.refresh_token })                 *)
RefreshCredentials(uid) == [owner |-> uid, kind |-> "refresh_token"]
(* setCredentials(tokens)                                                  *)
TokenCredentials(uid) == [owner |-> uid, kind |-> "tokens"]

(* A call made while serving uid: what it is and whose credentials the     *)
(* client held.                                                            *)
ApiCall(uid, kind, msg, credentials) ==
    [uid |-> uid, kind |-> kind, msg |-> msg, with |-> credentials.owner]

Request(hasTokens, expired, messages, pdf) ==
    [pc |-> "start", hasTokens |-> hasTokens, expired |-> expired,
     messages |-> messages, pdf |-> pdf, pending |-> {}]

InitAuth ==
    /\ oCredentials = NoCredentials
    /\ oReq \in [Uids -> {Request(h, e, n, p) :
                            h \in BOOLEAN, e \in BOOLEAN,
                            n \in 0..MaxAuthMessages, p \in BOOLEAN}]
    /\ oCalls = {}
    /\ IdleBills
    /\ IdleStatement
    /\ IdleAnalyze
    /\ IdleFilter
    /\ IdleBatch
    /\ IdleEmail
    /\ IdleParse
    /\ IdleMatcher

(* getValidTokens: the token document is read.  Without tokens the request *)
(* ends with 401; expired tokens are refreshed: setCredentials with the    *)
(* refresh token, then the call of refreshAccessToken.                     *)
AuthTokensRead(uid) ==
    /\ oReq[uid].pc = "start"
    /\ IF ~oReq[uid].hasTokens
       THEN /\ oReq' = [oReq EXCEPT ![uid].pc = "done"]
            /\ UNCHANGED <<oCredentials, oCalls>>
       ELSE IF oReq[uid].expired
       THEN /\ oCredentials' = RefreshCredentials(uid)
            /\ oCalls' = oCalls \cup {ApiCall(uid, "refresh", 0, oCredentials')}
            /\ oReq' = [oReq EXCEPT ![uid].pc = "refreshing"]
       ELSE /\ oReq' = [oReq EXCEPT ![uid].pc = "loaded"]
            /\ UNCHANGED <<oCredentials, oCalls>>
    /\ UNCHANGED notAuthVars

(* refreshAccessToken settled: on a rejection null is returned (401); else *)
(* the new tokens are saved                                                *)
AuthRefreshed(uid) ==
    /\ oReq[uid].pc = "refreshing"
    /\ \E ok \in BOOLEAN :
          oReq' = [oReq EXCEPT ![uid].pc = IF ok THEN "saving" ELSE "done"]
    /\ UNCHANGED <<oCredentials, oCalls>>
    /\ UNCHANGED notAuthVars

(* the new tokens are saved and returned                                   *)
AuthSaved(uid) ==
    /\ oReq[uid].pc = "saving"
    /\ oReq' = [oReq EXCEPT ![uid].pc = "loaded"]
    /\ UNCHANGED <<oCredentials, oCalls>>
    /\ UNCHANGED notAuthVars

(* the handler has the tokens: setCredentials and the call of              *)
(* messages.list                                                           *)
AuthList(uid) ==
    /\ oReq[uid].pc = "loaded"
    /\ oCredentials' = TokenCredentials(uid)
    /\ oCalls' = oCalls \cup {ApiCall(uid, "list", 0, oCredentials')}
    /\ oReq' = [oReq EXCEPT ![uid].pc = "listing"]
    /\ UNCHANGED notAuthVars

(* messages.list resolved: messages.map calls EmailParser.parse for each   *)
(* message, and each parse calls messages.get                              *)
AuthFetch(uid) ==
    /\ oReq[uid].pc = "listing"
    /\ oCalls' = oCalls \cup {ApiCall(uid, "get", m, oCredentials) :
                                m \in 1..oReq[uid].messages}
    /\ oReq' = [oReq EXCEPT ![uid].pc = "parsing",
                            ![uid].pending = 1..oReq[uid].messages]
    /\ UNCHANGED oCredentials
    /\ UNCHANGED notAuthVars

(* messages.get resolved for a message: the parse goes on and, for a PDF   *)
(* part, calls attachments.get                                             *)
AuthAttachment(uid) ==
    /\ oReq[uid].pc = "parsing"
    /\ \E m \in oReq[uid].pending :
          /\ oCalls' = IF oReq[uid].pdf
                       THEN oCalls \cup {ApiCall(uid, "attachment", m, oCredentials)}
                       ELSE oCalls
          /\ oReq' = [oReq EXCEPT ![uid].pending = @ \ {m}]
    /\ UNCHANGED oCredentials
    /\ UNCHANGED notAuthVars

(* every parse settled: the rest of the handler makes no Gmail call        *)
AuthDone(uid) ==
    /\ oReq[uid].pc = "parsing"
    /\ oReq[uid].pending = {}
    /\ oReq' = [oReq EXCEPT ![uid].pc = "done"]
    /\ UNCHANGED <<oCredentials, oCalls>>
    /\ UNCHANGED notAuthVars

NextAuth ==
    \E uid \in Uids :
        \/ AuthTokensRead(uid)
        \/ AuthRefreshed(uid)
        \/ AuthSaved(uid)
        \/ AuthList(uid)
        \/ AuthFetch(uid)
        \/ AuthAttachment(uid)
        \/ AuthDone(uid)

SpecAuth == InitAuth /\ [][NextAuth]_vars

----------------------------------------------------------------------------
(* GET /gmail/statements/analyze and POST /statements/upload, from the     *)
(* call of the matcher on: the transactions are staged in a Firestore      *)
(* batch and committed, then the bills of the confident Matches are        *)
(* marked as paid.  The two handlers have the same code for this.          *)

PaidThreshold == 70

(* allTransactions: the transactions with the id of their source           *)
SourcedTransaction(tx, source) ==
    [date |-> tx.date, description |-> tx.description, amount |-> tx.amount,
     type |-> tx.type, sourceEmailId |-> source]

(* `${tx.sourceEmailId}_${tx.date}_${tx.amount}`                           *)
TxId(tx) == <<tx.sourceEmailId, tx.date, tx.amount>>

(* matches.find((m) => m.transactionDate === tx.date &&                    *)
(*                     m.transactionAmount === tx.amount)                  *)
FindMatch(ms, tx) ==
    LET hits == {k \in 1..Len(ms) : ms[k].transactionDate = tx.date
                                    /\ ms[k].transactionAmount = tx.amount}
    IN  IF hits = {} THEN None ELSE Some(ms[MinOf(hits)])

(* match?.billId || null                                                   *)
MatchedBillId(match) == IF match = None THEN None ELSE Some(match[1].billId)

(* batch.set(txRef, { ...tx, id: txId, matchedBillId, ... })               *)
TxWrite(tx, ms) ==
    [id |-> TxId(tx), tx |-> tx, matchedBillId |-> MatchedBillId(FindMatch(ms, tx))]

MarksEveryMatch(match) == TRUE

(* if (match.confidence >= 70)                                             *)
MarksPaid(match) == match.confidence >= PaidThreshold

(* The stored bill document, as far as the handler writes it.              *)
BillDoc(status, paidDate) == [status |-> status, paidDate |-> paidDate]

(* .update({ status: "paid", paidDate: match.transactionDate, ... })       *)
PaidUpdate(doc, match) ==
    [doc EXCEPT !.status = "paid", !.paidDate = Some(match.transactionDate)]

StatementTxShapes ==
    TxShapes \cup {Transaction(Day(1), MatchDescription, 100, "debit")}

StatementBillShapes ==
    {Bill(0, Some(<<"A", "c", "m", "e">>), Some(100), Some(MatchDay), "unpaid"),
     Bill(0, None, Some(100), Some(MatchDay), "unpaid"),
     Bill(0, None, Some(100), None, "unpaid"),
     Bill(0, Some(<<"A", "c", "m", "e">>), Some(100), Some(MatchDay), "paid")}

InitStatement ==
    /\ \E txs \in SeqsUpTo(StatementTxShapes, MaxMatchTx) :
          stTransactions = [i \in 1..Len(txs) |-> SourcedTransaction(txs[i], "m1")]
    /\ stBills \in {WithIds(shapes) : shapes \in SeqsUpTo(StatementBillShapes, MaxBills)}
    /\ stMatches = <<>>
    /\ stPc = "match"
    /\ stI = 0
    /\ stBatch = <<>>
    /\ stStored = <<>>
    /\ stBillDocs = [b \in 1..Len(stBills) |-> BillDoc(stBills[b].status, None)]
    /\ IdleBills
    /\ IdleAuth
    /\ IdleAnalyze
    /\ IdleFilter
    /\ IdleBatch
    /\ IdleEmail
    /\ IdleParse
    /\ IdleMatcher

(* const matches = billMatcher.matchTransactionsToBills(allTransactions,   *)
(* bills)                                                                  *)
StatementMatch ==
    /\ stPc = "match"
    /\ stMatches' = MatchTransactionsToBills(stTransactions, stBills)
    /\ stPc' = "store"
    /\ stI' = 1
    /\ UNCHANGED <<stTransactions, stBills, stBatch, stStored, stBillDocs>>
    /\ UNCHANGED notStatementVars

(* for (const tx of allTransactions): batch.set                            *)
StatementStage ==
    /\ stPc = "store"
    /\ stI <= Len(stTransactions)
    /\ stBatch' = Append(stBatch, TxWrite(stTransactions[stI], stMatches))
    /\ stI' = stI + 1
    /\ UNCHANGED <<stTransactions, stBills, stMatches, stPc, stStored, stBillDocs>>
    /\ UNCHANGED notStatementVars

(* await batch.commit(): the staged writes are stored, or the commit fails *)
StatementCommit ==
    /\ stPc = "store"
    /\ stI > Len(stTransactions)
    /\ \/ stStored' = stBatch /\ stPc' = "mark" /\ stI' = 1
       \/ stPc' = "failed" /\ UNCHANGED <<stStored, stI>>
    /\ UNCHANGED <<stTransactions, stBills, stMatches, stBatch, stBillDocs>>
    /\ UNCHANGED notStatementVars

(* for (const match of matches): a Match below the threshold is passed     *)
(* over                                                                    *)
StatementPass ==
    /\ stPc = "mark"
    /\ stI <= Len(stMatches)
    /\ ~MarksPaid(stMatches[stI])
    /\ stI' = stI + 1
    /\ UNCHANGED <<stTransactions, stBills, stMatches, stPc, stBatch, stStored,
                   stBillDocs>>
    /\ UNCHANGED notStatementVars

(* await ...doc(match.billId).update(...): the bill is updated, or the     *)
(* update fails                                                            *)
StatementMark ==
    /\ stPc = "mark"
    /\ stI <= Len(stMatches)
    /\ MarksPaid(stMatches[stI])
    /\ \/ /\ stBillDocs' = [stBillDocs EXCEPT ![stMatches[stI].billId] =
                                PaidUpdate(@, stMatches[stI])]
          /\ stI' = stI + 1
          /\ UNCHANGED stPc
       \/ stPc' = "failed" /\ UNCHANGED <<stBillDocs, stI>>
    /\ UNCHANGED <<stTransactions, stBills, stMatches, stBatch, stStored>>
    /\ UNCHANGED notStatementVars

(* res.json({ transactions, matches, ... })                                *)
StatementRespond ==
    /\ stPc = "mark"
    /\ stI > Len(stMatches)
    /\ stPc' = "responded"
    /\ UNCHANGED <<stTransactions, stBills, stMatches, stI, stBatch, stStored,
                   stBillDocs>>
    /\ UNCHANGED notStatementVars

NextStatement ==
    \/ StatementMatch
    \/ StatementStage
    \/ StatementCommit
    \/ StatementPass
    \/ StatementMark
    \/ StatementRespond

SpecStatement == InitStatement /\ [][NextStatement]_vars

----------------------------------------------------------------------------
(* Claims on analyzeBatch().                                               *)

\* C1: analyzeBatch returns one result per document, and results[i] is the
\* outcome of the oracle call made for documents[i], whatever the order in
\* which the oracle calls settle.
C1_OrderPreserved ==
    bPc = "returned" =>
        /\ Len(results) = Len(emails)
        /\ \A i \in 1..Len(emails) :
              results[i] = BatchItem(bKind, emails[i], Analyze(bKind, resp[emails[i]]).value)

(* One chunk of three whose first call settled last, with a result that    *)
(* differs from its neighbour's.                                           *)
C1_Witness ==
    /\ bPc = "returned"
    /\ Len(emails) = 3
    /\ concurrency = 3
    /\ lastSettled = emails[1]
    /\ resp[1] = Responded(<<"{", "}">>)
    /\ resp[2] = Failed
    /\ results[1] # results[2]

\* C2: with a positive concurrency, the oracle calls started and not yet
\* settled never number more than concurrency.
C2_InFlightCap == concurrency > 0 => Cardinality(inflight) <= concurrency

C2_Witness ==
    /\ bPc = "await"
    /\ concurrency = 2
    /\ Cardinality(inflight) = 2
    /\ Len(emails) > 2

HasSpan(s, open, close) ==
    \E i, j \in 1..Len(s) : i < j /\ s[i] = open /\ s[j] = close

LocatedSpan(s, open, close) ==
    SubSeq(s, MinOf(Positions(s, open)), MaxOf(Positions(s, close)))

OpenOf(kind) == IF kind = "bill" THEN "{" ELSE "["
CloseOf(kind) == IF kind = "bill" THEN "}" ELSE "]"

(* The cases in which analyze() has nothing to return: the oracle call     *)
(* failed, the text is empty, it holds no span, the span is no JSON.       *)
NothingToReturn(kind, outcome) ==
    \/ ~outcome.ok
    \/ outcome.text = <<>>
    \/ ~HasSpan(outcome.text, OpenOf(kind), CloseOf(kind))
    \/ ~JSONValid(LocatedSpan(outcome.text, OpenOf(kind), CloseOf(kind)))

(* What a span stands for: the object, or the valid transactions of the    *)
(* array.                                                                  *)
SpanResult(kind, span) ==
    IF kind = "bill" THEN JSONValue(span)
    ELSE SelectSeq(ArrayElems(span), FilterKeeps)

ExpectedValue(kind, outcome) ==
    IF NothingToReturn(kind, outcome) THEN FallbackOf(kind)
    ELSE SpanResult(kind, LocatedSpan(outcome.text, OpenOf(kind), CloseOf(kind)))

\* C3: whatever the oracle outcomes of the documents, analyzeBatch never
\* rejects; when it returns, a failing document has null (bill) or the empty
\* list (statement) at its own index and every other document its parsed
\* result.
C3_FailuresIsolated ==
    /\ bPc # "rejected"
    /\ bPc = "returned" =>
          /\ Len(results) = Len(emails)
          /\ \A i \in 1..Len(emails) :
                results[i] = BatchItem(bKind, emails[i],
                                       ExpectedValue(bKind, resp[emails[i]]))

(* Two chunks: the first holds a failed call and a span that is no JSON,   *)
(* the second a document that parses.                                      *)
C3_Witness ==
    /\ bPc = "returned"
    /\ bKind = "bill"
    /\ concurrency = 2
    /\ Len(emails) = 3
    /\ resp[1] = Failed
    /\ resp[2] = Responded(<<"{", "x", "}">>)
    /\ resp[3] = Responded(<<"x", "{", "k", "1", "}">>)
    /\ results = <<Null, Null, <<"{", "k", "1", "}">> >>

\* C4: analyzeBatch with concurrency <= 0 on a non-empty list ends as a
\* rejected call.
C4_NonPositiveRejected ==
    (bPc = "loop" /\ concurrency <= 0 /\ Len(emails) > 0) ~> (bPc = "rejected")

----------------------------------------------------------------------------
(* Claims on analyze().                                                    *)

\* C5: a single-document analyze call never raises; it returns null (bill) or
\* the empty list (statement) when the oracle call fails, the text is empty,
\* the text holds no span, or the located span is no valid JSON.
C5_AnalyzeNeverRaises ==
    aPc = "done" =>
        /\ ~aResult.raised
        /\ NothingToReturn(aKind, aOutcome) => aResult.value = FallbackOf(aKind)

C5_Witness ==
    /\ aPc = "done"
    /\ aKind = "bill"
    /\ aOutcome = Responded(<<"{", "x", "}">>)
    /\ aResult.value = Null

(* The end of the balanced span that opens before position p, or 0.        *)
RECURSIVE BalancedEnd(_, _, _, _, _)
BalancedEnd(s, p, depth, open, close) ==
    IF p > Len(s) THEN 0
    ELSE IF s[p] = open THEN BalancedEnd(s, p + 1, depth + 1, open, close)
    ELSE IF s[p] = close
         THEN IF depth = 1 THEN p ELSE BalancedEnd(s, p + 1, depth - 1, open, close)
    ELSE BalancedEnd(s, p + 1, depth, open, close)

(* The first opening bracket, when the span it opens is closed.            *)
BalancedStarts(s, open, close) ==
    {p \in Positions(s, open) :
        /\ \A q \in Positions(s, open) : p <= q
        /\ BalancedEnd(s, p + 1, 1, open, close) # 0}

FirstBalancedSpan(s, open, close) ==
    LET p == MinOf(BalancedStarts(s, open, close))
    IN  SubSeq(s, p, BalancedEnd(s, p + 1, 1, open, close))

\* C6: whenever the first balanced span of the response text is valid JSON,
\* analyze returns what that span holds, whatever precedes or follows it.
C6_FirstBalancedSpan ==
    (/\ aPc = "done"
     /\ aOutcome.ok
     /\ BalancedStarts(aOutcome.text, OpenOf(aKind), CloseOf(aKind)) # {}
     /\ JSONValid(FirstBalancedSpan(aOutcome.text, OpenOf(aKind), CloseOf(aKind))))
    => aResult.value =
          SpanResult(aKind, FirstBalancedSpan(aOutcome.text, OpenOf(aKind), CloseOf(aKind)))

(* The transactions the statement schema keeps.                            *)
SchemaValid(e) ==
    /\ ~e.isNull
    /\ e.date.t = "string" /\ e.date.s # ""
    /\ e.description.t = "string" /\ e.description.s # ""
    /\ e.amount.t = "number" /\ e.amount.n > 0
    /\ e.type \in {Str("debit"), Str("credit")}

\* C7: for every parsed oracle array StatementAnalyzer.analyze returns exactly
\* the subsequence of the schema-valid elements, in order; an invalid element
\* is dropped alone and never costs a valid sibling.
C7_FilterExact ==
    fPc = "done" =>
        /\ ~fResult.raised
        /\ fResult.value = SelectSeq(fArr, SchemaValid)

----------------------------------------------------------------------------
(* Claims on Email.                                                        *)

IsPrefix(a, b) == Len(a) <= Len(b) /\ \A i \in 1..Len(a) : a[i] = b[i]

\* C8: fullContent is at most 5000 characters long and a prefix of
\* body + attachment text; it is the whole concatenation when that has at
\* most 5000 characters and its leading 5000 characters otherwise.
C8_FullContentBounded ==
    ePc = "done" =>
        LET all == eBody \o ePdfText
        IN  /\ Len(eFull) <= 5000
            /\ IsPrefix(eFull, all)
            /\ Len(all) <= 5000 => eFull = all
            /\ Len(all) > 5000 => eFull = [i \in 1..5000 |-> all[i]]

(* A concatenation of more than 5000 characters that is cut inside the     *)
(* attachment text.                                                        *)
C8_Witness ==
    /\ ePc = "done"
    /\ Len(eBody) < 5000
    /\ Len(eBody) > 0
    /\ Len(eBody) + Len(ePdfText) > 5000
    /\ Len(eFull) = 5000

----------------------------------------------------------------------------
(* Claims on EmailParser.parse.                                            *)

PartsOf(msg, mime) == {i \in 1..Len(msg.parts) : msg.parts[i].mimeType = mime}

(* The text a part carries: nothing when it has no data.                   *)
PartText(part) == IF Present(part.data) THEN Base64Decode(part.data) ELSE <<>>

(* The body by the strict cascade: the html part counts only when the      *)
(* message has no text/plain part at all.                                  *)
StrictCascadeBody(msg) ==
    IF Present(msg.bodyData) THEN Base64Decode(msg.bodyData)
    ELSE IF PartsOf(msg, "text/plain") # {}
         THEN PartText(msg.parts[MinOf(PartsOf(msg, "text/plain"))])
    ELSE IF PartsOf(msg, "text/html") # {}
         THEN StripHtml(PartText(msg.parts[MinOf(PartsOf(msg, "text/html"))]))
    ELSE <<>>

\* C9 as claimed: the body is the inline payload if present, otherwise the
\* first text/plain part, and the first text/html part (stripped) only when
\* the message has no text/plain part at all; otherwise it is empty.
C9_StrictCascade ==
    pPc = "returned" => pEmail.body = StrictCascadeBody(pMsg)

(* The body by the cascade on an empty body: the html part counts whenever *)
(* the first text/plain part gave no text.                                 *)
EmptyFallbackBody(msg) ==
    IF Present(msg.bodyData) THEN Base64Decode(msg.bodyData)
    ELSE IF /\ PartsOf(msg, "text/plain") # {}
            /\ PartText(msg.parts[MinOf(PartsOf(msg, "text/plain"))]) # <<>>
         THEN PartText(msg.parts[MinOf(PartsOf(msg, "text/plain"))])
    ELSE IF PartsOf(msg, "text/html") # {}
         THEN StripHtml(PartText(msg.parts[MinOf(PartsOf(msg, "text/html"))]))
    ELSE <<>>

(* The message with its parts i and i + 1 exchanged.                       *)
SwapParts(msg, i) ==
    [msg EXCEPT !.parts = [j \in 1..Len(msg.parts) |->
        IF j = i THEN msg.parts[i + 1]
        ELSE IF j = i + 1 THEN msg.parts[i] ELSE msg.parts[j]]]

\* C9 as amended: the body is the inline payload if its data is non-empty;
\* otherwise the text of the first text/plain part if that text is non-empty;
\* otherwise (no text/plain part, or a first one without text) the first
\* text/html part, stripped; otherwise empty.  Exchanging two neighbouring
\* parts of different media types does not change the body.
C9_CascadeOnEmptyBody ==
    pPc = "returned" =>
        /\ pEmail.body = EmptyFallbackBody(pMsg)
        /\ \A i \in 1..(Len(pMsg.parts) - 1) :
              pMsg.parts[i].mimeType # pMsg.parts[i + 1].mimeType
              => SelectBody(SwapParts(pMsg, i)) = pEmail.body

(* A text/plain part without data before a text/html part: the body is the *)
(* stripped html.                                                          *)
C9_Witness ==
    /\ pPc = "returned"
    /\ pMsg.bodyData = "none"
    /\ pMsg.parts = <<Part("text/plain", "none", "none"),
                      Part("text/html", "PHA+SGk8L3A+", "none")>>
    /\ pEmail.body = <<" ", "H", "i", " ">>

(* The attachment text of the parts from i on, given how each went.        *)
RECURSIVE ExpectedPdfText(_, _, _)
ExpectedPdfText(parts, outcome, i) ==
    IF i > Len(parts) THEN <<>>
    ELSE (IF /\ parts[i].mimeType = "application/pdf"
             /\ Present(parts[i].attachmentId)
             /\ outcome[i] \in {"text", "emptyText"}
          THEN Separator \o ExtractedText(i, outcome[i])
          ELSE <<>>)
         \o ExpectedPdfText(parts, outcome, i + 1)

RECURSIVE PdfAttachmentParts(_, _)
PdfAttachmentParts(parts, i) ==
    IF i > Len(parts) THEN <<>>
    ELSE (IF parts[i].mimeType = "application/pdf" /\ Present(parts[i].attachmentId)
          THEN <<i>> ELSE <<>>)
         \o PdfAttachmentParts(parts, i + 1)

\* C10: a failure of one attachment's fetch or extraction never makes parse
\* fail; the attachment text returned is the concatenation, in part order and
\* each after a blank-line separator, of the texts of exactly the PDF parts
\* with an attachment reference whose fetch and extraction succeeded; only
\* those parts with a reference are fetched.
C10_AttachmentsIsolated ==
    /\ pPc = "rejected" => pFetched = <<>>
    /\ pPc = "returned" =>
          /\ pEmail.pdfText = ExpectedPdfText(pMsg.parts, pOutcome, 1)
          /\ pFetched = PdfAttachmentParts(pMsg.parts, 1)

(* Three PDF parts: the first fails in extraction, the second has no       *)
(* attachment reference, the third gives its text.                         *)
C10_Witness ==
    /\ pPc = "returned"
    /\ pMsg.parts = <<Part("application/pdf", "none", "att-1"),
                      Part("application/pdf", "none", "none"),
                      Part("application/pdf", "none", "att-1")>>
    /\ pOutcome = <<"extractFailed", "none", "text">>
    /\ pFetched = <<1, 3>>
    /\ pEmail.pdfText = <<"\n", "\n", "P", "3">>

----------------------------------------------------------------------------
(* Claims on BillMatcher.matchTransactionsToBills.                         *)

(* The fields a Match copies from its transaction.                         *)
CarriesTransaction(match, tx) ==
    /\ match.transactionDate = tx.date
    /\ match.transactionDescription = tx.description
    /\ match.transactionAmount = tx.amount

(* The transactions a call has dealt with so far, by position.             *)
Processed == {i \in 1..Len(transactions) : mPc = "returned" \/ (mPc = "loop" /\ i < mI)}

(* The Matches made for the transaction at position i.                     *)
MatchesOf(i) == {k \in 1..Len(mFrom) : mFrom[k] = i}

\* C11: a transaction whose type is "credit" never appears in a Match: every
\* Match of the call was made for a transaction that is no credit and carries
\* that transaction's date, description and amount.
C11_CreditsNeverMatched ==
    /\ Len(mFrom) = Len(matches)
    /\ \A k \in 1..Len(matches) :
        /\ mFrom[k] \in Processed
        /\ transactions[mFrom[k]].type # "credit"
        /\ CarriesTransaction(matches[k], transactions[mFrom[k]])

(* The call returned Matches, and passed over a credit that a bill of the  *)
(* pool would have matched.                                                *)
C11_Witness ==
    /\ mPc = "returned"
    /\ matches # <<>>
    /\ \E i \in 1..Len(transactions) :
        /\ transactions[i].type = "credit"
        /\ FindBestMatch(transactions[i], unpaidBills) # None

\* C12: a bill whose status is "paid" is never the billId of a Match.
C12_PaidNeverTargets ==
    \A k \in 1..Len(matches) :
        /\ matches[k].billId \in 1..Len(bills)
        /\ bills[matches[k].billId].status # "paid"

(* The call returned Matches although a paid bill of the list scores at    *)
(* least as high as every other bill for a debit.                          *)
C12_Witness ==
    /\ mPc = "returned"
    /\ matches # <<>>
    /\ \E i \in 1..Len(transactions), b \in 1..Len(bills) :
        /\ transactions[i].type = "debit"
        /\ bills[b].status = "paid"
        /\ \A c \in 1..Len(bills) :
            NumberTruthy(bills[c].amount) =>
                FlLeq(CalculateMatchScore(transactions[i], bills[c]),
                      CalculateMatchScore(transactions[i], bills[b]))

(* The bills findBestMatch scores: unpaid, with an amount.                 *)
Candidates ==
    {b \in 1..Len(bills) : bills[b].status # "paid" /\ NumberTruthy(bills[b].amount)}

(* The composite score of the transaction at i against the bill at b.      *)
ScoreAgainst(i, b) == CalculateMatchScore(transactions[i], bills[b])

Half == FlDiv(1, 2)

\* C13: for each debit transaction at most one Match is made; a Match is made
\* for bill b only if b's score is the largest of all candidate bills and is
\* >= 0.5; no Match is made exactly when no candidate bill scores >= 0.5 (so
\* a score of exactly 0.5 is accepted and every lower one rejected).
C13_BestOrNone ==
    \A i \in Processed :
        transactions[i].type = "debit" =>
            /\ Cardinality(MatchesOf(i)) <= 1
            /\ \A k \in MatchesOf(i) :
                /\ matches[k].billId \in Candidates
                /\ FlLeq(Half, ScoreAgainst(i, matches[k].billId))
                /\ \A c \in Candidates :
                    FlLeq(ScoreAgainst(i, c), ScoreAgainst(i, matches[k].billId))
            /\ (MatchesOf(i) = {}) <=>
                    (\A c \in Candidates : FlLess(ScoreAgainst(i, c), Half))

(* The call returned a Match for a pair that scores exactly 0.5, and no    *)
(* Match for a debit whose best candidate scores more than 0 but less than *)
(* 0.5.                                                                    *)
C13_Witness ==
    /\ mPc = "returned"
    /\ \E i \in 1..Len(transactions) :
        \E k \in MatchesOf(i) : ScoreAgainst(i, matches[k].billId) = Half
    /\ \E j \in 1..Len(transactions) :
        /\ transactions[j].type = "debit"
        /\ MatchesOf(j) = {}
        /\ \E c \in Candidates : FlLess(Zero, ScoreAgainst(j, c))

----------------------------------------------------------------------------
(* Claims on BillMatcher.calculateMatchScore.                              *)

(* |tx.amount - bill.amount| / bill.amount <= pct / 100, in exact          *)
(* arithmetic (the bills scored have a positive amount).                   *)
RelDiffAtMost(pct) ==
    Abs(sTx.amount - sBill.amount[1]) * 100 <= pct * sBill.amount[1]

(* The amount component the claim gives a difference of at most 5%.        *)
AmountComponent == IF RelDiffAtMost(2) THEN FlDiv(5, 10) ELSE FlDiv(3, 10)

\* C14: the amount component is decided by the relative difference
\* |tx.amount - bill.amount| / bill.amount alone: at most 2% leaves 0.5 in the
\* score, more than 2% and at most 5% leaves 0.3, and more than 5% makes the
\* call return 0 at once, whatever the date and the name would have added.
C14_AmountTiers ==
    /\ sPc = "date" => RelDiffAtMost(5) /\ sScore = AmountComponent
    /\ sPc \in {"name", "done"} /\ RelDiffAtMost(5) => FlLeq(AmountComponent, sScore)
    /\ ~RelDiffAtMost(5) => sPc \in {"amount", "done"}
    /\ sPc = "done" /\ ~RelDiffAtMost(5) => sScore = Zero

(* 110 against 100 returned 0, although the date is the due date and the   *)
(* description holds the company name.                                     *)
C14_Witness ==
    /\ sPc = "done"
    /\ sTx.amount = 110
    /\ sBill.amount = Some(100)
    /\ sBill.dueDate = Some(sTx.date)
    /\ StringTruthy(sBill.company)
    /\ Includes(ToLowerCase(sTx.description), ToLowerCase(sBill.company[1]))
    /\ sScore = Zero

----------------------------------------------------------------------------
(* Claims on the confidence of a Match.                                    *)

(* One debit of 104 against one unpaid bill of 100 that is due on the      *)
(* transaction's date and has no company name.                             *)
CloseAmountOnDueDate ==
    /\ Len(transactions) = 1
    /\ transactions[1].type = "debit"
    /\ transactions[1].amount = 104
    /\ Len(bills) = 1
    /\ bills[1].status = "unpaid"
    /\ bills[1].amount = Some(100)
    /\ bills[1].dueDate = Some(transactions[1].date)
    /\ bills[1].company = None

\* C15 as stated: a debit of 104 against a single unpaid bill of 100, due on
\* the transaction's date and without company name, yields exactly one Match,
\* of confidence 80.
C15_Confidence80 ==
    mPc = "returned" /\ CloseAmountOnDueDate =>
        Len(matches) = 1 /\ matches[1].confidence = 80

\* C15 as amended: a debit of 104 against a single unpaid bill of 100, due on
\* the transaction's date and without company name, yields exactly one Match,
\* of confidence 60 (0.3 for the amount, 0.3 for the date, nothing for the
\* name).
C15_Confidence60 ==
    mPc = "returned" /\ CloseAmountOnDueDate =>
        Len(matches) = 1 /\ matches[1].billId = 1 /\ matches[1].confidence = 60

(* The call on that transaction and that bill has returned.                *)
C15_Witness == mPc = "returned" /\ CloseAmountOnDueDate /\ matches # <<>>

----------------------------------------------------------------------------
(* Claims on the date and name components.                                 *)

(* Transaction date - due date, in days, of a bill with a due date; both   *)
(* dates are valid.                                                        *)
DatesValid == sBill.dueDate # None /\ sTx.date.valid /\ sBill.dueDate[1].valid
DaysDiff == sTx.date.day - sBill.dueDate[1].day

(* The score the claim gives after the date component, score being the     *)
(* score before it.                                                        *)
WithDateComponent(score) ==
    IF sBill.dueDate = None THEN score
    ELSE IF DaysDiff >= -7 /\ DaysDiff <= 14 THEN FlAdd(score, FlDiv(3, 10))
    ELSE IF DaysDiff >= -14 /\ DaysDiff <= 30 THEN FlAdd(score, FlDiv(15, 100))
    ELSE score

\* C16: for a bill with a due date the date component is decided by daysDiff =
\* transaction date - due date in days alone: from -7 to 14 it adds 0.3,
\* otherwise from -14 to 30 it adds 0.15, otherwise nothing; a bill without
\* due date gets nothing added.
C16_DateTiers ==
    [][sPc = "date" /\ (sBill.dueDate = None \/ DatesValid)
            => sScore' = WithDateComponent(sScore)]_vars


(* The date component was added for a transaction 15 days after the due    *)
(* date: 0.15 on top of the amount component.                              *)
C16_Witness ==
    /\ sPc = "name"
    /\ DatesValid
    /\ DaysDiff = 15
    /\ sScore = FlAdd(AmountComponent, FlDiv(15, 100))

(* What calculateNameSimilarity is called with.                            *)
FoldedDescription == ToLowerCase(nDesc)
FoldedCompany == ToLowerCase(nCompany)

\* C17: if the case-folded company name is a substring of the case-folded
\* description the name similarity is 1, whatever the length of the words of
\* the company name.
C17_SubstringIsOne ==
    nPc = "done" /\ Includes(FoldedDescription, FoldedCompany) => nSimilarity = One

(* The words of the company name, by position: the longest runs of         *)
(* characters that are no white space; the long ones have more than 2      *)
(* characters.                                                             *)
CompanyWords ==
    {w \in (1..Len(FoldedCompany)) \X (1..Len(FoldedCompany)) :
        /\ w[1] <= w[2]
        /\ \A p \in w[1]..w[2] : ~IsSpace(FoldedCompany[p])
        /\ w[1] = 1 \/ IsSpace(FoldedCompany[w[1] - 1])
        /\ w[2] = Len(FoldedCompany) \/ IsSpace(FoldedCompany[w[2] + 1])}

LongCompanyWords == {w \in CompanyWords : w[2] - w[1] + 1 > 2}

WordsInDescription ==
    {w \in LongCompanyWords : Includes(FoldedDescription, SubSeq(FoldedCompany, w[1], w[2]))}

(* Some category of the keyword table: the company name contains its name  *)
(* and the description one of its keywords.                                *)
CategoryHit ==
    \E c \in DOMAIN CommonMappings :
        /\ Includes(FoldedCompany, CommonMappings[c].category)
        /\ \E k \in DOMAIN CommonMappings[c].keywords :
            Includes(FoldedDescription, CommonMappings[c].keywords[k])

\* C18: when the company name is no substring of the description, the name
\* similarity is 0.8 if some category of the keyword table is hit; otherwise
\* it is the fraction of the company's words of more than 2 characters that
\* occur in the description, and 0 if the company has no such word.  The
\* similarity is always between 0 and 1.
C18_CategoryOrOverlap ==
    nPc = "done" =>
        /\ FlLeq(Zero, nSimilarity) /\ FlLeq(nSimilarity, One)
        /\ ~Includes(FoldedDescription, FoldedCompany) =>
            nSimilarity =
                IF CategoryHit THEN FlDiv(8, 10)
                ELSE IF LongCompanyWords = {} THEN Zero
                ELSE FlDiv(Cardinality(WordsInDescription), Cardinality(LongCompanyWords))

(* "amzn digital" against "Amazon": 0.8 by the keyword table.              *)
C18_Witness ==
    /\ nPc = "done"
    /\ FoldedDescription = <<"a", "m", "z", "n", " ", "d", "i", "g", "i", "t", "a", "l">>
    /\ FoldedCompany = <<"a", "m", "a", "z", "o", "n">>
    /\ nSimilarity = FlDiv(8, 10)
    /\ nSimilarity # One

----------------------------------------------------------------------------
(* Claims on the Matches returned.                                         *)

(* The three components of the score of the transaction at i against the   *)
(* bill at b, a bill findBestMatch scores.                                 *)
AmountComponentOf(i, b) ==
    IF Abs(transactions[i].amount - bills[b].amount[1]) * 100 <= 2 * bills[b].amount[1]
    THEN FlDiv(5, 10)
    ELSE IF Abs(transactions[i].amount - bills[b].amount[1]) * 100 <= 5 * bills[b].amount[1]
         THEN FlDiv(3, 10)
         ELSE Zero

DateComponentOf(i, b) ==
    LET diff == transactions[i].date.day - bills[b].dueDate[1].day
    IN  IF bills[b].dueDate = None
           \/ ~transactions[i].date.valid \/ ~bills[b].dueDate[1].valid THEN Zero
        ELSE IF diff >= -7 /\ diff <= 14 THEN FlDiv(3, 10)
        ELSE IF diff >= -14 /\ diff <= 30 THEN FlDiv(15, 100)
        ELSE Zero

NameComponentOf(i, b) ==
    IF StringTruthy(bills[b].company)
    THEN FlMul(CalculateNameSimilarity(ToLowerCase(transactions[i].description),
                                       ToLowerCase(bills[b].company[1])),
               FlDiv(2, 10))
    ELSE Zero

ComponentSum(i, b) ==
    FlAdd(FlAdd(AmountComponentOf(i, b), DateComponentOf(i, b)), NameComponentOf(i, b))

\* C19: every Match has confidence = round(score * 100), score being the sum
\* of the amount, date and name components of its transaction and its bill,
\* and the confidence is an integer from 50 to 100.
C19_ConfidenceIsRoundedScore ==
    \A k \in 1..Len(matches) :
        /\ matches[k].confidence \in 50..100
        /\ matches[k].billId \in Candidates
        /\ matches[k].confidence =
               MathRound(FlMul(ComponentSum(mFrom[k], matches[k].billId), FromInt(100)))

(* The call returned a Match of confidence 100 (0.5 + 0.3 + 0.2) and one   *)
(* of confidence 80 (0.3 + 0.3 + 0.2).                                     *)
C19_Witness ==
    /\ mPc = "returned"
    /\ \E k \in 1..Len(matches) : matches[k].confidence = 100
    /\ \E k \in 1..Len(matches) :
        /\ matches[k].confidence = 80
        /\ transactions[mFrom[k]].amount = 104

(* The results of the calls on each single transaction of the list, from   *)
(* position i on, concatenated in the order of the list.                   *)
RECURSIVE SinglesFrom(_)
SinglesFrom(i) ==
    IF i > Len(transactions) THEN <<>>
    ELSE MatchTransactionsToBills(<<transactions[i]>>, bills) \o SinglesFrom(i + 1)

\* C20: matching is per transaction: what matchTransactionsToBills(T, B)
\* returns is the concatenation, in the order of T, of what
\* matchTransactionsToBills([t], B) returns for each t of T, and the call
\* leaves the bills as they were.
C20_PerTransaction ==
    /\ unpaidBills \in {<<>>, UnpaidBills(bills)}
    /\ mPc = "returned" => matches = SinglesFrom(1)

(* The call returned two different Matches that have the same bill as      *)
(* billId.                                                                 *)
C20_Witness ==
    /\ mPc = "returned"
    /\ Len(matches) = 2
    /\ matches[1].billId = matches[2].billId
    /\ matches[1].transactionAmount # matches[2].transactionAmount

----------------------------------------------------------------------------
(* Claims on the chunks of analyzeBatch().                                 *)

(* The documents whose oracle call has been started and has not settled.   *)
Unsettled == {batch[p] : p \in inflight}

(* The consecutive slice of at most concurrency documents that follows the *)
(* documents already in results.                                           *)
ConsecutiveChunk ==
    SubSeq(emails, Len(results) + 1, Min(Len(results) + concurrency, Len(emails)))

\* C22: the chunks are consecutive slices of size concurrency (the last may
\* be smaller), processed one after another: when the oracle calls of a chunk
\* are started, every call started before has settled, and the chunk is the
\* slice of at most concurrency documents that follows the documents of the
\* chunks before it.
C22_ChunksInTurn ==
    [][(bPc = "loop" /\ bPc' = "await") =>
            /\ Unsettled = {}
            /\ batch' = ConsecutiveChunk
            /\ \A d \in 1..Len(emails) :
                  calls'[d] > calls[d] <=> \E p \in 1..Len(batch') : batch'[p] = d]_vars

\* C23: with a positive concurrency the oracle is invoked at most once for
\* each document and, when analyzeBatch has returned, exactly once for each;
\* a result index, once written, is never written again, in results and in
\* the values Promise.all collects; and when the call returns results has
\* one entry for each document.
C23_OncePerDocument ==
    /\ [](concurrency > 0 =>
            /\ \A d \in 1..Len(emails) : calls[d] <= 1
            /\ Len(results) <= Len(emails)
            /\ bPc = "returned" =>
                  /\ \A d \in 1..Len(emails) : calls[d] = 1
                  /\ Len(results) = Len(emails))
    /\ [][concurrency > 0 =>
            /\ Len(results') >= Len(results)
            /\ SubSeq(results', 1, Len(results)) = results
            /\ \A p \in 1..Len(batchResults) :
                  (bPc = "await" /\ batchResults[p].done) =>
                      batchResults'[p] = batchResults[p]]_vars

(* Three documents in chunks of two: the call returned after two chunks.   *)
C23_Witness ==
    /\ bPc = "returned"
    /\ concurrency = 2
    /\ Len(emails) = 3
    /\ \A d \in 1..3 : calls[d] = 1
    /\ Len(results) = 3

----------------------------------------------------------------------------
(* Claims on the bills findBestMatch scores.                               *)

(* The bills calculateMatchScore was called on for the transaction at i.   *)
ScoredFor(i) == {b \in 1..Len(bills) : <<i, b>> \in mScored}

NotPaid == {b \in 1..Len(bills) : bills[b].status # "paid"}

\* C24 (as stated): the bills scored for a debit transaction are exactly the
\* bills whose status is not "paid" and whose amount is not null, and a bill
\* with null amount is in no Match.
C24_NonNullScored ==
    /\ \A i \in Processed :
          transactions[i].type = "debit" =>
              ScoredFor(i) = {b \in NotPaid : bills[b].amount # None}
    /\ \A k \in 1..Len(matches) : bills[matches[k].billId].amount # None

\* C24 (amended): the bills scored for a debit transaction are exactly the
\* bills whose status is not "paid" and whose amount is neither null nor 0;
\* no bill is scored for a credit, and a bill with null or zero amount is in
\* no Match.
C24_TruthyScored ==
    /\ \A i \in Processed :
          ScoredFor(i) =
              IF transactions[i].type = "debit"
              THEN {b \in NotPaid : bills[b].amount # None /\ bills[b].amount[1] # 0}
              ELSE {}
    /\ \A i \in 1..Len(transactions) : i \notin Processed => ScoredFor(i) = {}
    /\ \A k \in 1..Len(matches) :
          /\ bills[matches[k].billId].amount # None
          /\ bills[matches[k].billId].amount[1] # 0

(* A debit was matched to a bill while an unpaid bill of amount 0 was not   *)
(* scored for it.                                                          *)
C24_Witness ==
    /\ mPc = "returned"
    /\ matches # <<>>
    /\ \E b, c \in NotPaid :
          /\ bills[b].amount = Some(0)
          /\ <<mFrom[1], b>> \notin mScored
          /\ <<mFrom[1], c>> \in mScored
          /\ matches[1].billId = c

\* C25: when two or more candidate bills have the same maximal score (>= 0.5)
\* for a transaction, its Match refers to the one that comes first in the
\* bills list: every candidate before the Match's bill scores strictly less.
C25_FirstWinsTies ==
    \A k \in 1..Len(matches) :
        \A c \in Candidates :
            /\ FlLeq(ScoreAgainst(mFrom[k], c), ScoreAgainst(mFrom[k], matches[k].billId))
            /\ c < matches[k].billId =>
                  FlLess(ScoreAgainst(mFrom[k], c), ScoreAgainst(mFrom[k], matches[k].billId))

(* Two candidate bills with the same score for a debit: the Match is on    *)
(* the first.                                                              *)
C25_Witness ==
    /\ mPc = "returned"
    /\ \E k \in 1..Len(matches) :
          /\ matches[k].billId = 1
          /\ 2 \in Candidates
          /\ ScoreAgainst(mFrom[k], 2) = ScoreAgainst(mFrom[k], 1)

----------------------------------------------------------------------------
(* Claims on GET /gmail/bills/analyze.                                     *)

(* The bill events written for the email at position i (1-based).          *)
BillEventsFor(i) ==
    {k \in 1..Len(rWritten) : rWritten[k].event = "bill" /\ rWritten[k].index = i - 1}

(* The emails the sending loop has dealt with.                             *)
Sent == 1..rI

\* C21: a bill event is written for email i exactly when billResults[i] is
\* not null, its isBill is true and its confidence is > 50, and the event
\* carries the id, subject, sender and date of emails[i].
C21_AcceptedExactly ==
    \A i \in Sent :
        /\ BillEventsFor(i) # {} <=>
              /\ ~rBillResults[i].isNull
              /\ rBillResults[i].isBill = Bool(TRUE)
              /\ rBillResults[i].confidence.t = "number"
              /\ rBillResults[i].confidence.n > 50
        /\ \A k \in BillEventsFor(i) :
              /\ rWritten[k].data.id = Str(rEmails[i].id)
              /\ rWritten[k].data.emailSubject = rEmails[i].subject
              /\ rWritten[k].data.emailFrom = rEmails[i].from
              /\ rWritten[k].data.emailDate = rEmails[i].date

(* The Documents of the messages whose fetch resolved, in message order.   *)
RECURSIVE ParsedOfFetched(_)
ParsedOfFetched(i) ==
    IF i > Len(rMessages) THEN <<>>
    ELSE (IF rFetchOk[i] THEN <<ParsedEmail(rMessages[i])>> ELSE <<>>)
         \o ParsedOfFetched(i + 1)

\* C26: a message whose fetch fails produces no Document, and the failure is
\* confined to it: once the parses of the request have settled, the endpoint
\* holds the Documents of the messages whose fetch resolved.
C26_FailureConfined ==
    (rAuth = "ok" /\ rListOk /\ rPc \notin {"start", "tokens", "list", "parse"}) =>
        rEmails = ParsedOfFetched(1)

\* C30: every authenticated request in the end completes its response
\* exactly once, by ending the event stream or by delivering an error
\* response, also when the listing, a parse or the analysis fails.
C30_CompletesOnce ==
    (rPc = "list") ~> (rResponse \in {"ended", "error"} /\ rCompletions = 1)

----------------------------------------------------------------------------
(* Claims on the shared OAuth client.                                      *)

\* C27: under every interleaving of requests for different users, each Gmail
\* API call and each token refresh made while serving a request for uid U
\* is made with the credentials loaded for U.
C27_OwnTokens == \A call \in oCalls : call.with = call.uid

----------------------------------------------------------------------------
(* Claims on the statement analysis endpoints.                             *)

(* The bill of the Match the matcher makes for a transaction on its own,   *)
(* if it makes one.                                                        *)
OwnBillId(tx) ==
    LET own == IF IsDebit(tx) THEN FindBestMatch(tx, UnpaidBills(stBills)) ELSE None
    IN  IF own = None THEN None ELSE Some(own[1].billId)

\* C28: each transaction is stored with the billId of the Match the matcher
\* produced for that very transaction as matchedBillId, and with null when
\* it is a credit or a debit without a Match, also when another transaction
\* has the same date and amount.
C28_OwnMatchOnly ==
    /\ Len(stStored) <= Len(stTransactions)
    /\ \A k \in 1..Len(stStored) :
          /\ stStored[k].tx = stTransactions[k]
          /\ stStored[k].matchedBillId = OwnBillId(stTransactions[k])

(* What the store held for a bill when the handler read it.                *)
AsRead(b) == BillDoc(stBills[b].status, None)

MatchesOn(b) == {k \in 1..Len(stMatches) : stMatches[k].billId = b}

\* C29: a stored bill is set to "paid" only if a returned Match on it has
\* confidence >= 70, and then paidDate is the transaction date of such a
\* Match; a bill whose Matches all have a confidence below 70 and a bill
\* without a Match are left as they were.
C29_PaidOnlyIfConfident ==
    \A b \in 1..Len(stBillDocs) :
        \/ stBillDocs[b] = AsRead(b)
        \/ /\ stBillDocs[b].status = "paid"
           /\ \E k \in MatchesOn(b) :
                 /\ stMatches[k].confidence >= 70
                 /\ stBillDocs[b].paidDate = Some(stMatches[k].transactionDate)

(* A bill with a Match of confidence 80 and one of confidence 60 was       *)
(* marked as paid, with the date of the first.                             *)
C29_Witness ==
    /\ stPc = "responded"
    /\ \E b \in 1..Len(stBillDocs) :
          /\ stBills[b].status = "unpaid"
          /\ stBillDocs[b].status = "paid"
          /\ \E k, l \in MatchesOn(b) :
                /\ stMatches[k].confidence = 80
                /\ stMatches[l].confidence = 60
                /\ stMatches[k].transactionDate # stMatches[l].transactionDate
                /\ stBillDocs[b].paidDate = Some(stMatches[k].transactionDate)

====
